---------------------------- MODULE Spec2Model ----------------------------
(***************************************************************************)
(* A model of moviedisc-ripper: the MakeMKV runners (run_makemkv and       *)
(* _run_makemkv_info), the metadata hand-off (ensure_metadata_layout and   *)
(* wait_for_metadata_layout_ready), the checksum migration and pipeline of *)
(* main, and the disc fingerprint.                                         *)
(*                                                                         *)
(* Each part has its own specification over its own variables; the         *)
(* variables of the other parts keep their initial values.                 *)
(***************************************************************************)
EXTENDS Integers, Sequences, FiniteSets, TLC

VARIABLES
    \* ---- the MakeMKV runners (run_makemkv, _run_makemkv_info) ----
    call,            \* which runner was called: "rip" (run_makemkv) or "scan" (_run_makemkv_info)
    rpc,             \* position in the runner
    max_retries,     \* run_makemkv's parameter
    volume_name,     \* run_makemkv's parameter ("" models None)
    attempt,         \* run_makemkv's local counter
    launches,        \* number of subprocess.Popen calls made
    error_detected,  \* run_makemkv's local flag
    proc,            \* state of the subprocess
    returncode,      \* proc.returncode once the subprocess has exited
    seen,            \* the lines of the current subprocess processed so far
    outcomes,        \* for each finished attempt: "error", "clean" or "nonzero"
    ejects,          \* number of `diskutil eject` commands issued
    eject_result,    \* outcome of the last eject command
    polls,           \* iterations of the reinsertion wait performed
    path_seen,       \* os.path.exists answered True in the current wait
    fail_reason,     \* which diagnostic preceded sys.exit(1)
    exit_code,       \* the process exit status (0 while it has not exited)
    \* ---- wait_for_metadata_layout_ready ----
    wpc,             \* position in wait_for_metadata_layout_ready
    error_count,     \* its local counter (saturating at MaxErrorCount)
    spin,            \* i % len(spinner)
    answer,          \* what the request of the current iteration produced
    interrupted,     \* the user pressed Ctrl+C
    ready_forever,   \* the reviewer has marked the layout ready for good
    wait_exit,       \* exit status of the process when the wait ended it
    \* ---- disc_fingerprint ----
    fp_present,      \* the files on the volume
    fp_size,         \* st_size of each file
    fp_sep,          \* os.sep of the host
    fp_type,         \* the disc_type argument
    fp_moves,        \* bytes moved between files so far
    fp_digest,       \* the digest computed for the volume as it is now
    fp_first,        \* the digest computed first
    fp_legacy,       \* the latest call of disc_fingerprint_legacy
    \* ---- the parsers of a title's duration and size ----
    ps_kind,         \* which parser the text goes to
    ps_parts,        \* the pieces the text was put together from
    ps_text,         \* the text of the attribute
    ps_result,       \* what the parser gave
    \* ---- scan_titles_with_makemkv ----
    sc_input,        \* the lines of the scan's output
    sc_pending,      \* the lines the loop has not come to yet
    titles_tinfo,    \* title_index -> attribute id -> value
    tinfo_order,     \* the keys of titles_tinfo in the order of insertion
    titles_sinfo,    \* title_index -> stream_index -> attribute id -> value
    angles_detected,
    sc_pc,           \* "reading", "returned" or "raised"
    sc_results,      \* the list returned
    \* ---- the selection of audio tracks (apply_audio_track_preferences) ----
    updated_tracks,  \* the audio tracks of an item, in stream order
    user_settings,   \* audio_quality_preference and include_commentary
    apc,             \* "start" before the selection, "done" after it
    \* ---- angle duplicates: the scan's filter and cleanup_angle_duplicates ----
    cu_titles,       \* the titles of the disc, in title_index order
    cu_angles,       \* the scan output announces angles
    cu_pc,           \* "scan", "stored" (first run over), "cleaned" or "skipped" (a later run over)
    cu_items,        \* the store: the items of the layout, in list order
    cu_failed,       \* deletes of the cleanup that failed
    \* ---- transcode: the track selections of the HandBrake command ----
    tc_audio,        \* transcode's audio_tracks
    tc_subtitles,    \* transcode's subtitle_tracks
    tc_pc,           \* "start", then "run" once the command is built
    cmd,             \* the selections in the command
    \* ---- analyze_and_update_metadata: the audio-analysis phase ----
    an_pc,           \* position in analyze_and_update_metadata
    an_layout,       \* the store: the metadata layout of the checksum
    an_tracks,       \* the store: the audio_tracks of the layout's item
    an_settings,     \* what get_user_settings returns
    an_status_req,   \* how the status request ended
    an_fetched,      \* the item's audio_tracks as fetched
    an_patches,      \* the bodies of the PATCH requests sent
    \* ---- main: the pipeline and the store it talks to ----
    mpc,             \* position in main
    m_exit,          \* exit status of the run (0 while running or done)
    st_discs,        \* the store: checksums that have a disc record
    st_layout,       \* the store: the metadata layout of the disc
    st_items,        \* the store: title indexes of the layout's items
    st_enabled,      \* the store: the items whose enabled flag is set
    legacy_exists,   \* main's local
    checksum,        \* main's local: the key the pipeline works under
    keys_used,       \* the keys of this run's requests and of its temp dir
    api,             \* main's local: the lookup found a record
    needs_post,      \* main's local
    rekeys,          \* the re-key requests (PUT) this run sent
    rekeyed_before,  \* an earlier run's re-key request was answered 200
    pub_last,        \* this run's call of ensure_metadata_layout
    pub_prev,        \* what the latest earlier call that returned reported
    handled,         \* the items the transcoding loop has been through
    ready_seen,      \* the wait of this run observed status "ready"
    enabled_items,   \* main's local: the fetched list of enabled items
    fetched,         \* the list was fetched, and after ready_seen
    transcoded       \* the items handed to the transcoder in this run

runnerVars == <<call, rpc, max_retries, volume_name, attempt, launches,
                error_detected, proc, returncode, seen, outcomes, ejects,
                eject_result, polls, path_seen, fail_reason, exit_code>>

waitVars == <<wpc, error_count, spin, answer, interrupted, ready_forever,
              wait_exit>>

fpVars == <<fp_present, fp_size, fp_sep, fp_type, fp_moves, fp_digest,
            fp_first, fp_legacy>>

parseVars == <<ps_kind, ps_parts, ps_text, ps_result>>

audioVars == <<updated_tracks, user_settings, apc>>

cleanupVars == <<cu_titles, cu_angles, cu_pc, cu_items, cu_failed>>

transcodeVars == <<tc_audio, tc_subtitles, tc_pc, cmd>>

analyzeVars == <<an_pc, an_layout, an_tracks, an_settings, an_status_req,
                 an_fetched, an_patches>>

scanVars == <<sc_input, sc_pending, titles_tinfo, tinfo_order, titles_sinfo,
              angles_detected, sc_pc, sc_results>>

storeVars == <<st_discs, st_layout, st_items, st_enabled>>

mainVars == <<mpc, m_exit, storeVars, legacy_exists, api, needs_post,
              rekeys, rekeyed_before, pub_last, pub_prev, ready_seen,
              enabled_items, fetched, handled, transcoded, checksum,
              keys_used>>

vars == <<runnerVars, waitVars, fpVars, mainVars, parseVars, scanVars,
         audioVars, cleanupVars,
         transcodeVars,
         analyzeVars>>

-----------------------------------------------------------------------------
(***************************************************************************)
(* Bounds of the model.                                                    *)
(***************************************************************************)
MaxRetries == 3      \* max_retries ranges over 0..MaxRetries
MaxLines == 2        \* output lines a subprocess prints before it closes stdout
MaxErrorCount == 3   \* error_count is counted up to this value
MaxJunk == 2         \* junk files present on the volume at a time
MaxMoves == 1        \* bytes moved from one file to another

(***************************************************************************)
(* Program constants.                                                      *)
(***************************************************************************)
WAIT_CEILING == 60   \* for _ in range(60)
SPINNER_LEN == 10    \* len(spinner)
FILES_CAP == 200     \* files[:200]
None == ""           \* volume_name: str = None

-----------------------------------------------------------------------------
(***************************************************************************)
(* Output lines.  A line is modelled by the phrase it carries and by       *)
(* whether that phrase is printed in capitals; str.lower() removes the     *)
(* capitals, and a substring test succeeds only on the exact (lowercase)   *)
(* spelling.                                                               *)
(***************************************************************************)
Phrases == {"progress", "medium error", "uncorrectable error", "scsi error",
            "lec uncorrectable", "lec uncorrectable error"}

Lines == [phrase : Phrases, upper : BOOLEAN]

\* The signature substrings that occur in a (lowercase) phrase.
SubstringsOf(phrase) ==
    CASE phrase = "medium error" -> {"medium error"}
      [] phrase = "uncorrectable error" -> {"uncorrectable error"}
      [] phrase = "scsi error" -> {"scsi error"}
      [] phrase = "lec uncorrectable" -> {"lec uncorrectable"}
      [] phrase = "lec uncorrectable error" ->
             {"lec uncorrectable", "uncorrectable error"}
      [] OTHER -> {}

\* line.lower()
Lower(line) == [line EXCEPT !.upper = FALSE]

\* sub in l
In(sub, l) == ~l.upper /\ sub \in SubstringsOf(l.phrase)

\* _DISC_ERROR_SUBSTRINGS of includes/makemkv_titles.py
DISC_ERROR_SUBSTRINGS ==
    {"medium error", "uncorrectable error", "scsi error", "lec uncorrectable"}

\* The three substrings run_makemkv tests for.
RipErrorLine(line) ==
    LET l == Lower(line) IN
    \/ In("medium error", l)
    \/ In("uncorrectable error", l)
    \/ In("scsi error", l)

\* any(sub in low for sub in _DISC_ERROR_SUBSTRINGS)
ScanErrorLine(line) ==
    LET low == Lower(line) IN
    \E sub \in DISC_ERROR_SUBSTRINGS : In(sub, low)

-----------------------------------------------------------------------------
(***************************************************************************)
(* The runners.                                                            *)
(*   rpc = "loop"     at `while attempt < max_retries`                     *)
(*         "reading"  in `for line in proc.stdout`                         *)
(*         "after"    behind the for loop                                  *)
(*         "waiting"  in the reinsertion wait `for _ in range(60)`         *)
(*         "returned" the function returned normally                       *)
(*         "exited"   sys.exit(1) was called                               *)
(***************************************************************************)
\* The runners are not called.
RunnerIdle ==
    /\ call = "none" /\ rpc = "idle" /\ max_retries = 0
    /\ volume_name = None /\ attempt = 0 /\ launches = 0
    /\ error_detected = FALSE /\ proc = "none" /\ returncode = 0
    /\ seen = <<>> /\ outcomes = <<>> /\ ejects = 0
    /\ eject_result = "none" /\ polls = 0 /\ path_seen = FALSE
    /\ fail_reason = "none" /\ exit_code = 0

RunnerInit ==
    /\ call \in {"rip", "scan"}
    /\ max_retries \in IF call = "rip" THEN 0..MaxRetries ELSE {0}
    /\ volume_name \in IF call = "rip" THEN {None, "DISC"} ELSE {None}
    /\ rpc = "loop"
    /\ attempt = 0
    /\ launches = 0
    /\ error_detected = FALSE
    /\ proc = "none"
    /\ returncode = 0
    /\ seen = <<>>
    /\ outcomes = <<>>
    /\ ejects = 0
    /\ eject_result = "none"
    /\ polls = 0
    /\ path_seen = FALSE
    /\ fail_reason = "none"
    /\ exit_code = 0

\* sys.exit(1) after the diagnostic `why`
Fatal(why) ==
    /\ rpc' = "exited"
    /\ fail_reason' = why
    /\ exit_code' = 1

\* while attempt < max_retries: attempt += 1; proc = subprocess.Popen(...)
RipLaunch_OffByOne ==
    /\ call = "rip" /\ rpc = "loop"
    /\ attempt <= max_retries
    /\ attempt' = attempt + 1
    /\ launches' = launches + 1
    /\ proc' = "running"
    /\ error_detected' = FALSE
    /\ seen' = <<>>
    /\ path_seen' = FALSE
    /\ polls' = 0         \* the wait, if any, is over
    /\ rpc' = "reading"
    /\ UNCHANGED <<call, max_retries, volume_name, returncode, outcomes,
                   ejects, eject_result, fail_reason, exit_code>>

RipLaunch ==
    /\ call = "rip" /\ rpc = "loop"
    /\ attempt < max_retries
    /\ attempt' = attempt + 1
    /\ launches' = launches + 1
    /\ proc' = "running"
    /\ error_detected' = FALSE
    /\ seen' = <<>>
    /\ path_seen' = FALSE
    /\ polls' = 0         \* the wait, if any, is over
    /\ rpc' = "reading"
    /\ UNCHANGED <<call, max_retries, volume_name, returncode, outcomes,
                   ejects, eject_result, fail_reason, exit_code>>

\* The while condition is false: the function body ends, returning None.
RipLoopEnd ==
    /\ call = "rip" /\ rpc = "loop"
    /\ ~(attempt < max_retries)
    /\ rpc' = "returned"
    /\ UNCHANGED <<call, max_retries, volume_name, attempt, launches,
                   error_detected, proc, returncode, seen, outcomes, ejects,
                   eject_result, polls, path_seen, fail_reason, exit_code>>

\* One iteration of `for line in proc.stdout`: on an error line, terminate
\* the subprocess (kill it if it has not exited after 2 s) and break.
RipReadLine ==
    /\ call = "rip" /\ rpc = "reading"
    /\ Len(seen) < MaxLines
    /\ \E line \in Lines :
        /\ seen' = Append(seen, line)
        /\ IF RipErrorLine(line)
           THEN /\ error_detected' = TRUE
                /\ \E how \in {"terminated", "killed"} : proc' = how
                /\ rpc' = "after"
           ELSE /\ UNCHANGED <<error_detected, proc>>
                /\ rpc' = "reading"
    /\ UNCHANGED <<call, max_retries, volume_name, attempt, launches,
                   returncode, outcomes, ejects, eject_result, polls,
                   path_seen, fail_reason, exit_code>>

\* proc.stdout reaches end of file: the for loop ends without a break.
RipEndOfOutput ==
    /\ call = "rip" /\ rpc = "reading"
    /\ rpc' = "after"
    /\ UNCHANGED <<call, max_retries, volume_name, attempt, launches,
                   error_detected, proc, returncode, seen, outcomes, ejects,
                   eject_result, polls, path_seen, fail_reason, exit_code>>

\* if not error_detected: proc.wait(); non-zero -> sys.exit(1), else return
RipNoError_RetryOnNonZero ==
    /\ call = "rip" /\ rpc = "after"
    /\ ~error_detected
    /\ proc' = "exited"
    /\ \E rc \in {0, 1} :
        /\ returncode' = rc
        /\ IF rc # 0
           THEN /\ outcomes' = Append(outcomes, "nonzero")
                /\ rpc' = "loop"
                /\ UNCHANGED <<fail_reason, exit_code>>
           ELSE /\ outcomes' = Append(outcomes, "clean")
                /\ rpc' = "returned"
                /\ UNCHANGED <<fail_reason, exit_code>>
    /\ UNCHANGED <<call, max_retries, volume_name, attempt, launches,
                   error_detected, seen, ejects, eject_result, polls,
                   path_seen>>

RipNoError ==
    /\ call = "rip" /\ rpc = "after"
    /\ ~error_detected
    /\ proc' = "exited"
    /\ \E rc \in {0, 1} :
        /\ returncode' = rc
        /\ IF rc # 0
           THEN /\ outcomes' = Append(outcomes, "nonzero")
                /\ Fatal("nonzero_exit")
           ELSE /\ outcomes' = Append(outcomes, "clean")
                /\ rpc' = "returned"
                /\ UNCHANGED <<fail_reason, exit_code>>
    /\ UNCHANGED <<call, max_retries, volume_name, attempt, launches,
                   error_detected, seen, ejects, eject_result, polls,
                   path_seen>>

\* Error detected: retry (eject and wait, or sleep 5 s) or give up.
RipErrorDetected ==
    /\ call = "rip" /\ rpc = "after"
    /\ error_detected
    /\ outcomes' = Append(outcomes, "error")
    /\ IF attempt < max_retries
       THEN IF volume_name # None
            THEN /\ ejects' = ejects + 1
                 /\ \E res \in {"ok", "failed", "raised"} : eject_result' = res
                 /\ polls' = 0
                 /\ rpc' = "waiting"
                 /\ UNCHANGED <<fail_reason, exit_code>>
            ELSE /\ rpc' = "loop"
                 /\ UNCHANGED <<ejects, eject_result, polls, fail_reason,
                                exit_code>>
       ELSE /\ Fatal("retries_exhausted")
            /\ UNCHANGED <<ejects, eject_result, polls>>
    /\ seen' = <<>>      \* the subprocess is gone; its lines are kept no longer
    /\ UNCHANGED <<call, max_retries, volume_name, attempt, launches,
                   error_detected, proc, returncode, path_seen>>

\* One iteration of `for _ in range(60)`: sleep 1 s, test the mount path;
\* the else branch of the for loop exits when all 60 tests failed.
RipWaitPoll_NoCeiling ==
    /\ call = "rip" /\ rpc = "waiting"
    /\ polls < WAIT_CEILING
    /\ polls' = polls + 1
    /\ \E exists \in BOOLEAN :
        /\ path_seen' = exists
        /\ IF exists \/ polls' = WAIT_CEILING
           THEN /\ rpc' = "loop"
                /\ UNCHANGED <<fail_reason, exit_code>>
           ELSE /\ rpc' = "waiting"
                /\ UNCHANGED <<fail_reason, exit_code>>
    /\ UNCHANGED <<call, max_retries, volume_name, attempt, launches,
                   error_detected, proc, returncode, seen, outcomes, ejects,
                   eject_result>>

RipWaitPoll ==
    /\ call = "rip" /\ rpc = "waiting"
    /\ polls < WAIT_CEILING
    /\ polls' = polls + 1
    /\ \E exists \in BOOLEAN :
        /\ path_seen' = exists
        /\ IF exists
           THEN /\ rpc' = "loop"
                /\ UNCHANGED <<fail_reason, exit_code>>
           ELSE IF polls' = WAIT_CEILING
                THEN Fatal("no_disc")
                ELSE /\ rpc' = "waiting"
                     /\ UNCHANGED <<fail_reason, exit_code>>
    /\ UNCHANGED <<call, max_retries, volume_name, attempt, launches,
                   error_detected, proc, returncode, seen, outcomes, ejects,
                   eject_result>>

\* _run_makemkv_info: proc = subprocess.Popen(cmd, ...)
ScanLaunch ==
    /\ call = "scan" /\ rpc = "loop"
    /\ launches' = launches + 1
    /\ proc' = "running"
    /\ seen' = <<>>
    /\ rpc' = "reading"
    /\ UNCHANGED <<call, max_retries, volume_name, attempt, error_detected,
                   returncode, outcomes, ejects, eject_result, polls,
                   path_seen, fail_reason, exit_code>>

\* An iteration that notes the error line and reads on
ScanReadLine_KeepsReading ==
    /\ call = "scan" /\ rpc = "reading"
    /\ Len(seen) < MaxLines
    /\ \E line \in Lines :
        /\ seen' = Append(seen, line)
        /\ error_detected' = (error_detected \/ ScanErrorLine(line))
        /\ rpc' = "reading"
    /\ UNCHANGED <<call, max_retries, volume_name, attempt, launches, proc,
                   returncode, outcomes, ejects, eject_result, polls,
                   path_seen, fail_reason, exit_code>>

\* One iteration of `for line in proc.stdout` of _run_makemkv_info.
ScanReadLine ==
    /\ call = "scan" /\ rpc = "reading"
    /\ Len(seen) < MaxLines
    /\ \E line \in Lines :
        /\ seen' = Append(seen, line)
        /\ IF ScanErrorLine(line)
           THEN /\ error_detected' = TRUE
                /\ \E how \in {"terminated", "killed"} : proc' = how
                /\ outcomes' = Append(outcomes, "error")
                /\ Fatal("scan_error")
           ELSE /\ UNCHANGED <<error_detected, proc, outcomes, fail_reason,
                               exit_code>>
                /\ rpc' = "reading"
    /\ UNCHANGED <<call, max_retries, volume_name, attempt, launches,
                   returncode, ejects, eject_result, polls, path_seen>>

\* End of output: proc.wait(timeout); a timeout kills the subprocess and
\* exits, a non-zero return code exits, otherwise the lines are returned.
ScanEndOfOutput ==
    /\ call = "scan" /\ rpc = "reading"
    /\ \/ /\ proc' = "killed"
          /\ outcomes' = Append(outcomes, "timeout")
          /\ Fatal("scan_timeout")
          /\ UNCHANGED returncode
       \/ /\ proc' = "exited"
          /\ \E rc \in {0, 1} :
              /\ returncode' = rc
              /\ IF rc # 0
                 THEN /\ outcomes' = Append(outcomes, "nonzero")
                      /\ Fatal("nonzero_exit")
                 ELSE /\ outcomes' = Append(outcomes, "clean")
                      /\ rpc' = "returned"
                      /\ UNCHANGED <<fail_reason, exit_code>>
    /\ UNCHANGED <<call, max_retries, volume_name, attempt, launches,
                   error_detected, seen, ejects, eject_result, polls,
                   path_seen>>

RunnerDone == rpc \in {"returned", "exited"}

-----------------------------------------------------------------------------
(***************************************************************************)
(* wait_for_metadata_layout_ready.                                         *)
(*   wpc = "request"    in requests.get (inside the try)                   *)
(*         "sleep_try"  in time.sleep of the non-200 branch (inside try)   *)
(*         "sleep"      in the time.sleep that ends the loop body          *)
(*         "returned"   the function returned                              *)
(*         "aborted"    the process was ended by the interrupt             *)
(***************************************************************************)
NoAnswer == [kind |-> "none", code |-> 0, status |-> "absent"]

\* What requests.get can produce: a response with a status code and, in its
\* JSON object, a status ("absent": the object has no status key), or one of
\* the two exceptions.
Answers ==
    [kind : {"response"}, code : {200, 404, 500},
     status : {"ready", "Ready", "pending", "absent"}]
    \cup [kind : {"timeout", "neterror"}, code : {0}, status : {"absent"}]

\* r.json().get("status", "unknown")
StatusOf(a) == IF a.status = "absent" THEN "unknown" ELSE a.status

Bump(n) == IF n < MaxErrorCount THEN n + 1 ELSE n

WaitIdle ==
    /\ wpc = "idle" /\ error_count = 0 /\ spin = 0 /\ answer = NoAnswer
    /\ interrupted = FALSE /\ ready_forever = FALSE /\ wait_exit = 0

WaitInit ==
    /\ wpc = "request" /\ error_count = 0 /\ spin = 0 /\ answer = NoAnswer
    /\ interrupted = FALSE /\ ready_forever = FALSE /\ wait_exit = 0

\* The store's answers to this request: once the layout is ready for good,
\* the store answers 200 with status "ready".
OfferedAnswers ==
    IF ready_forever
    THEN {[kind |-> "response", code |-> 200, status |-> "ready"]}
    ELSE Answers

\* The body of the try block for the answer a.
WaitRequest_GiveUp ==
    /\ wpc = "request"
    /\ \E a \in OfferedAnswers :
        /\ answer' = a
        /\ IF a.kind = "response" /\ a.code # 200
           THEN /\ error_count' = Bump(error_count)
                /\ IF error_count' >= MaxErrorCount
                   THEN wpc' = "aborted" /\ wait_exit' = 1
                   ELSE wpc' = "sleep_try" /\ UNCHANGED wait_exit
                /\ UNCHANGED spin
           ELSE IF a.kind = "response"
           THEN /\ error_count' = 0
                /\ spin' = (spin + 1) % SPINNER_LEN
                /\ wpc' = IF StatusOf(a) = "ready" THEN "returned" ELSE "sleep"
                /\ UNCHANGED wait_exit
           ELSE /\ error_count' = Bump(error_count)
                /\ wpc' = "sleep"
                /\ UNCHANGED <<spin, wait_exit>>
    /\ UNCHANGED <<interrupted, ready_forever>>

WaitRequest ==
    /\ wpc = "request"
    /\ \E a \in OfferedAnswers :
        /\ answer' = a
        /\ IF a.kind = "response" /\ a.code # 200
           THEN /\ error_count' = Bump(error_count)
                /\ wpc' = "sleep_try"
                /\ UNCHANGED spin
           ELSE IF a.kind = "response"
           THEN /\ error_count' = 0
                /\ spin' = (spin + 1) % SPINNER_LEN
                /\ wpc' = IF StatusOf(a) = "ready" THEN "returned" ELSE "sleep"
           ELSE /\ error_count' = Bump(error_count)
                /\ wpc' = "sleep"
                /\ UNCHANGED spin
    /\ UNCHANGED <<interrupted, ready_forever, wait_exit>>

\* time.sleep(poll_interval) returns: the next iteration of `while True`.
WaitSleepDone ==
    /\ wpc \in {"sleep_try", "sleep"}
    /\ wpc' = "request"
    /\ answer' = NoAnswer
    /\ UNCHANGED <<error_count, spin, interrupted, ready_forever, wait_exit>>

\* Ctrl+C.  Inside the try block KeyboardInterrupt is caught and
\* SystemExit(1) raised; in the sleep behind it the KeyboardInterrupt
\* itself ends the process (status 130).
WaitInterrupt ==
    /\ wpc \in {"request", "sleep_try", "sleep"}
    /\ interrupted' = TRUE
    /\ wpc' = "aborted"
    /\ wait_exit' = IF wpc = "sleep" THEN 130 ELSE 1
    /\ UNCHANGED <<error_count, spin, answer, ready_forever>>

\* The reviewer marks the layout ready and leaves it so.
ReviewerMarksReady ==
    /\ wpc \in {"request", "sleep_try", "sleep"}
    /\ ~ready_forever
    /\ ready_forever' = TRUE
    /\ UNCHANGED <<wpc, error_count, spin, answer, interrupted, wait_exit>>

-----------------------------------------------------------------------------
(***************************************************************************)
(* disc_fingerprint.                                                       *)
(***************************************************************************)
\* The strings of this part are sequences of characters, so that lower(),
\* startswith(), replace() and the order of sort() are computed.

\* ord(c) for the characters that occur.
Ord(c) ==
    CASE c = "$" -> 36
      [] c = "-" -> 45
      [] c = "." -> 46
      [] c = "/" -> 47
      [] c = "0" -> 48
      [] c = "1" -> 49
      [] c = "A" -> 65
      [] c = "B" -> 66
      [] c = "D" -> 68
      [] c = "S" -> 83
      [] c = "T" -> 84
      [] c = "V" -> 86
      [] c = "\\" -> 92
      [] c = "_" -> 95
      [] c = "a" -> 97
      [] c = "b" -> 98
      [] c = "c" -> 99
      [] c = "d" -> 100
      [] c = "e" -> 101
      [] c = "f" -> 102
      [] c = "g" -> 103
      [] c = "h" -> 104
      [] c = "i" -> 105
      [] c = "k" -> 107
      [] c = "l" -> 108
      [] c = "m" -> 109
      [] c = "n" -> 110
      [] c = "o" -> 111
      [] c = "p" -> 112
      [] c = "r" -> 114
      [] c = "s" -> 115
      [] c = "t" -> 116
      [] c = "u" -> 117
      [] c = "v" -> 118
      [] c = "x" -> 120
      [] c = "y" -> 121

\* c.lower()
LowerChar(c) ==
    CASE c = "A" -> "a"
      [] c = "B" -> "b"
      [] c = "D" -> "d"
      [] c = "S" -> "s"
      [] c = "T" -> "t"
      [] c = "V" -> "v"
      [] OTHER -> c

\* _JUNK_FILES
JUNK_FILES ==
    {<<".", "d", "s", "_", "s", "t", "o", "r", "e">>,
     <<"t", "h", "u", "m", "b", "s", ".", "d", "b">>,
     <<"d", "e", "s", "k", "t", "o", "p", ".", "i", "n", "i">>,
     <<".", "s", "p", "o", "t", "l", "i", "g", "h", "t", "-", "v", "1", "0", "0">>,
     <<".", "f", "s", "e", "v", "e", "n", "t", "s", "d">>,
     <<".", "t", "r", "a", "s", "h", "e", "s">>,
     <<"$", "r", "e", "c", "y", "c", "l", "e", ".", "b", "i", "n">>}

\* _JUNK_PREFIXES
JUNK_PREFIXES == {<<".", "_">>}

\* s.lower()
LowerStr(s) == [i \in DOMAIN s |-> LowerChar(s[i])]

\* s.startswith(prefix)
StartsWith(s, prefix) ==
    Len(s) >= Len(prefix) /\ SubSeq(s, 1, Len(prefix)) = prefix

\* _is_junk_file
IsJunkFile_CaseSensitive(filename) ==
    \/ filename \in JUNK_FILES
    \/ \E prefix \in JUNK_PREFIXES : StartsWith(filename, prefix)

IsJunkFile(filename) ==
    LET lower == LowerStr(filename) IN
    \/ lower \in JUNK_FILES
    \/ \E prefix \in JUNK_PREFIXES : StartsWith(lower, prefix)

\* The files a volume can hold: the directories from the volume's root and
\* the file name.  c1 and c2 are content, j1..j4 are what an operating system
\* leaves behind (j4 lies in a junk directory).
Content == {"c1", "c2"}

JunkIds == {"j1", "j2", "j3", "j4"}

FilePath(id) ==
    CASE id = "c1" -> [dirs |-> << <<"A">> >>, name |-> <<"x">>]
      [] id = "c2" -> [dirs |-> <<>>, name |-> <<"A", "B">>]
      [] id = "j1" -> [dirs |-> <<>>,
                       name |-> <<".", "D", "S", "_", "S", "t", "o", "r", "e">>]
      [] id = "j2" -> [dirs |-> << <<"A">> >>,
                       name |-> <<"T", "h", "u", "m", "b", "s", ".", "d", "b">>]
      [] id = "j3" -> [dirs |-> <<>>, name |-> <<".", "_", "A", "B">>]
      [] id = "j4" -> [dirs |-> << <<".", "T", "r", "a", "s", "h", "e", "s">> >>,
                       name |-> <<"x">>]

InitialSize(id) ==
    CASE id = "c1" -> 1 [] id = "c2" -> 2
      [] id = "j1" -> 8 [] id = "j2" -> 16 [] id = "j3" -> 32 [] id = "j4" -> 64

DiscTypes == {<<"D", "V", "D">>, <<"d", "v", "d">>, <<"D", "v", "d">>}

\* os.walk prunes the directories removed from dirs: a file is reached
\* unless one of its directories is junk.
Reached(id) == \A k \in DOMAIN FilePath(id).dirs : ~IsJunkFile(FilePath(id).dirs[k])

\* os.path.relpath(os.path.join(root, f), base) on a host with separator sep
RECURSIVE JoinPath(_, _)
JoinPath(components, sep) ==
    IF Len(components) = 1 THEN components[1]
    ELSE components[1] \o <<sep>> \o JoinPath(Tail(components), sep)

RelPath(id, sep) == JoinPath(Append(FilePath(id).dirs, FilePath(id).name), sep)

\* rel.replace("\\", "/")
NormalizeSeparators(rel) ==
    [i \in DOMAIN rel |-> IF rel[i] = "\\" THEN "/" ELSE rel[i]]

\* a < b for Python strings: the order of the code points
StrLess(a, b) ==
    \E k \in 1..(Len(a) + 1) :
        /\ k <= Len(b)
        /\ \A i \in 1..(k - 1) : a[i] = b[i]
        /\ (k = Len(a) + 1 \/ Ord(a[k]) < Ord(b[k]))

\* files.sort()
RECURSIVE Insert(_, _)
Insert(x, sorted) ==
    IF sorted = <<>> THEN <<x>>
    ELSE IF StrLess(sorted[1], x)
         THEN <<sorted[1]>> \o Insert(x, Tail(sorted))
         ELSE <<x>> \o sorted

RECURSIVE SortFiles(_)
SortFiles(files) ==
    IF files = <<>> THEN <<>> ELSE Insert(files[1], SortFiles(Tail(files)))

\* sha256(json.dumps(fingerprint, ...)): the digest stands for the document
Sha256(document) == <<"sha256", document>>

\* The loop of disc_fingerprint over the files in the order os.walk yields
\* them: the (files, total_size) pair it builds.
RECURSIVE Collect(_, _)
Collect(walk, sep) ==
    IF walk = <<>> THEN [files |-> <<>>, total_size |-> 0]
    ELSE LET rest == Collect(Tail(walk), sep)
             id == walk[1]
         IN IF ~Reached(id) \/ IsJunkFile(FilePath(id).name)
            THEN rest
            ELSE [files |-> <<NormalizeSeparators(RelPath(id, sep))>> \o rest.files,
                  total_size |-> fp_size[id] + rest.total_size]

Min(a, b) == IF a < b THEN a ELSE b

disc_fingerprint(walk, disc_type, sep) ==
    LET got == Collect(walk, sep)
        files == SortFiles(got.files)
    IN Sha256([disc_type |-> LowerStr(disc_type),
               file_count |-> Len(files),
               total_size |-> got.total_size,
               files |-> SubSeq(files, 1, Min(Len(files), FILES_CAP))])

\* The orders in which os.walk can yield the files.
Walks(ids) ==
    {w \in [1..Cardinality(ids) -> ids] : \A i, j \in DOMAIN w : i # j => w[i] # w[j]}

NoDigest == <<>>

\* No call of disc_fingerprint_legacy yet.
NoLegacy ==
    [called |-> FALSE, preserve_case |-> FALSE, disc_type |-> <<>>,
     junk |-> FALSE, digest |-> NoDigest, canonical |-> NoDigest]

FpIdle ==
    /\ fp_present = {} /\ fp_size = <<>> /\ fp_sep = "/" /\ fp_type = <<>>
    /\ fp_moves = 0 /\ fp_digest = NoDigest /\ fp_first = NoDigest
    /\ fp_legacy = NoLegacy

\* A volume without junk, fingerprinted on a host with separator "/" under
\* the lowercase disc type.
FpInit ==
    /\ fp_present \in (SUBSET Content) \ {{}}
    /\ fp_size = [id \in Content \cup JunkIds |-> InitialSize(id)]
    /\ fp_sep = "/"
    /\ fp_type = <<"d", "v", "d">>
    /\ fp_moves = 0
    /\ fp_digest = NoDigest
    /\ fp_first = NoDigest
    /\ fp_legacy = NoLegacy

\* disc_fingerprint(volume, disc_type) is called.
FpCompute ==
    /\ fp_digest = NoDigest
    /\ \E walk \in Walks(fp_present) :
           fp_digest' = disc_fingerprint(walk, fp_type, fp_sep)
    /\ fp_first' = IF fp_first = NoDigest THEN fp_digest' ELSE fp_first
    /\ UNCHANGED <<fp_legacy, fp_present, fp_size, fp_sep, fp_type, fp_moves>>

\* The operating system leaves a junk file on the volume (or its copy).
FpAddJunk ==
    /\ fp_first # NoDigest
    /\ Cardinality(fp_present \cap JunkIds) < MaxJunk
    /\ \E j \in JunkIds \ fp_present : fp_present' = fp_present \cup {j}
    /\ fp_digest' = NoDigest /\ fp_legacy' = NoLegacy
    /\ UNCHANGED <<fp_size, fp_sep, fp_type, fp_moves, fp_first>>

FpRemoveJunk ==
    /\ fp_first # NoDigest
    /\ \E j \in JunkIds \cap fp_present : fp_present' = fp_present \ {j}
    /\ fp_digest' = NoDigest /\ fp_legacy' = NoLegacy
    /\ UNCHANGED <<fp_size, fp_sep, fp_type, fp_moves, fp_first>>

\* The disc is read on a host with the other path separator.
FpOtherHost ==
    /\ fp_first # NoDigest
    /\ fp_sep' = IF fp_sep = "/" THEN "\\" ELSE "/"
    /\ fp_digest' = NoDigest /\ fp_legacy' = NoLegacy
    /\ UNCHANGED <<fp_present, fp_size, fp_type, fp_moves, fp_first>>

\* The disc type is given in another case.
FpOtherCase ==
    /\ fp_first # NoDigest
    /\ \E t \in DiscTypes \ {fp_type} : fp_type' = t
    /\ fp_digest' = NoDigest /\ fp_legacy' = NoLegacy
    /\ UNCHANGED <<fp_present, fp_size, fp_sep, fp_moves, fp_first>>

\* A volume with the same paths and the same size sum, one byte having
\* moved from file f to file g.
FpMoveByte ==
    /\ fp_first # NoDigest
    /\ fp_moves < MaxMoves
    /\ \E f, g \in fp_present \cap Content :
        /\ f # g
        /\ fp_size[f] > 0
        /\ fp_size' = [fp_size EXCEPT ![f] = @ - 1, ![g] = @ + 1]
    /\ fp_moves' = fp_moves + 1
    /\ fp_digest' = NoDigest /\ fp_legacy' = NoLegacy
    /\ UNCHANGED <<fp_present, fp_sep, fp_type, fp_first>>

-----------------------------------------------------------------------------
(***************************************************************************)
(* main: the checksums, the migration steps, the hand-off and the          *)
(* transcoding, against a store that outlives the run.                     *)
(***************************************************************************)
\* disc_fingerprint_legacy: no junk filtering, disc_type lowercased unless
\* preserve_case.
RECURSIVE CollectAll(_, _)
CollectAll(walk, sep) ==
    IF walk = <<>> THEN [files |-> <<>>, total_size |-> 0]
    ELSE LET rest == CollectAll(Tail(walk), sep)
             id == walk[1]
         IN [files |-> <<NormalizeSeparators(RelPath(id, sep))>> \o rest.files,
             total_size |-> fp_size[id] + rest.total_size]

disc_fingerprint_legacy_KeepsCase(walk, disc_type, preserve_case, sep) ==
    LET got == CollectAll(walk, sep)
        files == SortFiles(got.files)
    IN Sha256([disc_type |-> disc_type,
               file_count |-> Len(files),
               total_size |-> got.total_size,
               files |-> SubSeq(files, 1, Min(Len(files), FILES_CAP))])

disc_fingerprint_legacy(walk, disc_type, preserve_case, sep) ==
    LET got == CollectAll(walk, sep)
        files == SortFiles(got.files)
    IN Sha256([disc_type |-> IF preserve_case THEN disc_type
                                             ELSE LowerStr(disc_type),
               file_count |-> Len(files),
               total_size |-> got.total_size,
               files |-> SubSeq(files, 1, Min(Len(files), FILES_CAP))])

\* disc_fingerprint_legacy(volume, disc_type, preserve_case) is called on
\* the volume, and disc_fingerprint(volume, disc_type.lower()) beside it.
FpComputeLegacy ==
    /\ fp_first # NoDigest
    /\ fp_legacy = NoLegacy
    /\ \E preserve_case \in BOOLEAN, walk \in Walks(fp_present) :
          fp_legacy' =
              [called |-> TRUE,
               preserve_case |-> preserve_case,
               disc_type |-> fp_type,
               junk |-> (fp_present \cap JunkIds # {}),
               digest |-> disc_fingerprint_legacy(walk, fp_type,
                                                  preserve_case, fp_sep),
               canonical |-> disc_fingerprint(walk, LowerStr(fp_type),
                                              fp_sep)]
    /\ UNCHANGED <<fp_present, fp_size, fp_sep, fp_type, fp_moves, fp_digest,
                   fp_first>>

\* The order in which os.walk yields the files of the volume.
TheWalk == CHOOSE w \in Walks(fp_present) : TRUE

\* The volume's name, from detect_disc.
volume == <<"A", "B">>

\* main's four checksums; sha256(volume) digests the name's text, the
\* fingerprints digest a JSON document
legacy_checksum == Sha256([text |-> volume])

new_checksum == disc_fingerprint(TheWalk, fp_type, fp_sep)

unfiltered_checksum == disc_fingerprint_legacy(TheWalk, fp_type, FALSE, fp_sep)

uppercase_checksum == disc_fingerprint_legacy(TheWalk, fp_type, TRUE, fp_sep)

\* The titles the scan of the disc finds.
Titles == {0, 1}

\* The volume main works on: with or without junk files, typed as
\* detect_disc types it.
MainVolume ==
    /\ fp_present \in {Content, Content \cup {"j1"}}
    /\ fp_size = [id \in Content \cup JunkIds |-> InitialSize(id)]
    /\ fp_sep = "/"
    /\ fp_type = <<"D", "V", "D">>
    /\ fp_moves = 0 /\ fp_digest = NoDigest /\ fp_first = NoDigest
    /\ fp_legacy = NoLegacy

\* No call of ensure_metadata_layout yet.
NoCall == [status |-> 0, outcome |-> "none", existed |-> FALSE]

MainLocalsInit ==
    /\ mpc = "start" /\ m_exit = 0
    /\ legacy_exists = FALSE /\ api = FALSE /\ needs_post = FALSE
    /\ rekeys = <<>> /\ pub_last = NoCall
    /\ ready_seen = FALSE /\ enabled_items = {} /\ fetched = FALSE
    /\ handled = {} /\ transcoded = {}
    /\ checksum = NoDigest /\ keys_used = {}

MainIdle ==
    /\ mpc = "idle" /\ m_exit = 0
    /\ st_discs = {} /\ st_layout = "none" /\ st_items = {} /\ st_enabled = {}
    /\ legacy_exists = FALSE /\ api = FALSE /\ needs_post = FALSE
    /\ rekeys = <<>> /\ rekeyed_before = FALSE
    /\ pub_last = NoCall /\ pub_prev = "none"
    /\ ready_seen = FALSE /\ enabled_items = {} /\ fetched = FALSE
    /\ handled = {} /\ transcoded = {}
    /\ checksum = NoDigest /\ keys_used = {}

\* The store holds records made by earlier versions, under any of the
\* checksums; the disc has no layout yet.
MainInit ==
    /\ MainLocalsInit
    /\ st_discs \in SUBSET {legacy_checksum, unfiltered_checksum,
                            uppercase_checksum, new_checksum}
    /\ st_layout = "none" /\ st_items = {} /\ st_enabled = {}
    /\ rekeyed_before = FALSE /\ pub_prev = "none"

\* sys.exit(1), or an exception that nothing catches
MainFatal == mpc' = "exited" /\ m_exit' = 1

\* discfinder_lookup(checksum): the store answers 200 exactly for a
\* checksum that has a record.
discfinder_lookup(digest) == digest \in st_discs

\* What the store does with PUT discs/{from}/checksum {new_checksum: to}
\* when it answers status.
StoreAfterRekey(from, to, status) ==
    IF status = 200 THEN (st_discs \ {from}) \cup {to} ELSE st_discs

\* The statuses the store can answer a re-key with.
RekeyStatuses(from, to) ==
    IF from \notin st_discs THEN {404}
    ELSE IF to \in st_discs THEN {409}
    ELSE {200, 500}

\* legacy_checksum = sha256(volume); new_checksum = disc_fingerprint(...);
\* legacy_exists = legacy_checksum_exists(legacy_checksum), which is False
\* when the request fails
MainFingerprint ==
    /\ mpc = "start"
    /\ \E answered \in BOOLEAN :
           legacy_exists' = (answered /\ legacy_checksum \in st_discs)
    /\ mpc' = "lookup"
    /\ UNCHANGED <<m_exit, st_discs, st_layout, st_items, st_enabled, api,
                   needs_post, rekeys, rekeyed_before, pub_last, pub_prev,
                   ready_seen, enabled_items, fetched, handled, transcoded,
                   checksum, keys_used>>

\* api = discfinder_lookup(new_checksum); the request can raise
MainLookup ==
    /\ mpc = "lookup"
    /\ \/ /\ api' = discfinder_lookup(new_checksum)
          /\ mpc' = "migrate_volume"
          /\ UNCHANGED m_exit
       \/ /\ MainFatal
          /\ UNCHANGED api
    /\ UNCHANGED <<st_discs, st_layout, st_items, st_enabled, legacy_exists,
                   needs_post, rekeys, rekeyed_before, pub_last, pub_prev,
                   ready_seen, enabled_items, fetched, handled, transcoded,
                   checksum, keys_used>>

\* One re-key request and its record in the log.
SendRekey(variant, from, status) ==
    /\ rekeys' = Append(rekeys,
           [variant |-> variant, from |-> from,
            to |-> new_checksum,
            canonical_had |-> (new_checksum \in st_discs),
            legacy_had |-> (from \in st_discs),
            status |-> status])
    /\ st_discs' = StoreAfterRekey(from, new_checksum, status)

\* if not api and legacy_exists: ... the volume-name checksum is upgraded
\* in place; a status other than 200 is fatal
MainMigrateVolume_NoApiTest ==
    /\ mpc = "migrate_volume"
    /\ IF legacy_exists /\ discfinder_lookup(legacy_checksum)
       THEN \E status \in RekeyStatuses(legacy_checksum, new_checksum) :
               /\ SendRekey("volume", legacy_checksum, status)
               /\ IF status # 200
                  THEN MainFatal /\ UNCHANGED api
                  ELSE /\ api' = (new_checksum \in st_discs')
                       /\ mpc' = "migrate_unfiltered"
                       /\ UNCHANGED m_exit
       ELSE /\ mpc' = "migrate_unfiltered"
            /\ UNCHANGED <<m_exit, st_discs, api, rekeys>>
    /\ UNCHANGED <<st_layout, st_items, st_enabled, legacy_exists, needs_post,
                   rekeyed_before, pub_last, pub_prev, ready_seen,
                   enabled_items, fetched, handled, transcoded,
                   checksum, keys_used>>

MainMigrateVolume ==
    /\ mpc = "migrate_volume"
    /\ IF ~api /\ legacy_exists /\ discfinder_lookup(legacy_checksum)
       THEN \E status \in RekeyStatuses(legacy_checksum, new_checksum) :
               /\ SendRekey("volume", legacy_checksum, status)
               /\ IF status # 200
                  THEN MainFatal /\ UNCHANGED api
                  ELSE /\ api' = (new_checksum \in st_discs')
                       /\ mpc' = "migrate_unfiltered"
                       /\ UNCHANGED m_exit
       ELSE /\ mpc' = "migrate_unfiltered"
            /\ UNCHANGED <<m_exit, st_discs, api, rekeys>>
    /\ UNCHANGED <<st_layout, st_items, st_enabled, legacy_exists, needs_post,
                   rekeyed_before, pub_last, pub_prev, ready_seen,
                   enabled_items, fetched, handled, transcoded,
                   checksum, keys_used>>

\* if not api: if migrate_checksum_if_needed(new_checksum, legacy): api =
\* discfinder_lookup(new_checksum).  A failed re-key (a status other than
\* 200, or an exception of requests) returns False.
MigrateIfNeeded(variant, legacy) ==
    IF /\ ~api
       /\ new_checksum # legacy
       /\ ~discfinder_lookup(new_checksum)
       /\ discfinder_lookup(legacy)
    THEN \/ \E status \in RekeyStatuses(legacy, new_checksum) :
               /\ SendRekey(variant, legacy, status)
               /\ api' = IF status = 200 THEN new_checksum \in st_discs'
                                         ELSE api
         \/ UNCHANGED <<st_discs, api, rekeys>>     \* requests.put raised
    ELSE UNCHANGED <<st_discs, api, rekeys>>

MainMigrateUnfiltered ==
    /\ mpc = "migrate_unfiltered"
    /\ MigrateIfNeeded("unfiltered", unfiltered_checksum)
    /\ mpc' = "migrate_uppercase"
    /\ UNCHANGED <<m_exit, st_layout, st_items, st_enabled, legacy_exists,
                   needs_post, rekeyed_before, pub_last, pub_prev, ready_seen,
                   enabled_items, fetched, handled, transcoded,
                   checksum, keys_used>>

\* checksum = new_checksum, whatever the migration did
MainChecksum_LegacyWhenNotMigrated ==
    IF api' \/ rekeys' = <<>> THEN new_checksum
    ELSE rekeys'[Len(rekeys')].from

MainChecksum == new_checksum

\* The name of the disc's temp directory, checksum[:16]
TempDirName(digest) == [hex16_of |-> digest]

\* The run has used key for use.
Used(use, key) == keys_used' = keys_used \cup {[use |-> use, key |-> key]}

\* The last migration step, then checksum = new_checksum and the temp
\* directory of the disc
MainMigrateUppercase ==
    /\ mpc = "migrate_uppercase"
    /\ MigrateIfNeeded("uppercase", uppercase_checksum)
    /\ mpc' = "identify"
    /\ checksum' = MainChecksum
    /\ Used("temp_dir", TempDirName(checksum'))
    /\ UNCHANGED <<m_exit, st_layout, st_items, st_enabled, legacy_exists,
                   needs_post, rekeyed_before, pub_last, pub_prev, ready_seen,
                   enabled_items, fetched, handled, transcoded>>

\* if args.coverart: the cover art is downloaded and the run ends with
\* sys.exit(0), or with sys.exit(1) when there is none
MainCoverArt ==
    /\ mpc = "identify"
    /\ mpc' = "exited"
    /\ m_exit' \in {0, 1}
    /\ UNCHANGED <<storeVars, legacy_exists, api, needs_post, rekeys,
                   rekeyed_before, pub_last, pub_prev, ready_seen,
                   enabled_items, fetched, handled, transcoded,
                   checksum, keys_used>>

\* needs_post = (api is None); the user can reject the title found
\* (needs_post = True); no movie identified: sys.exit(1); then
\* discfinder_post(..., checksum, ...) when needs_post, else the link
MainIdentify ==
    /\ mpc = "identify"
    /\ \E rejected \in BOOLEAN, identified \in BOOLEAN, posted \in BOOLEAN :
        /\ needs_post' = (~api \/ (api /\ rejected))
        /\ IF ~identified
           THEN MainFatal /\ UNCHANGED <<st_discs, keys_used>>
           ELSE /\ st_discs' = IF needs_post' /\ posted
                               THEN st_discs \cup {checksum}
                               ELSE st_discs
                /\ IF needs_post' THEN Used("post_disc", checksum)
                                  ELSE Used("link_disc", checksum)
                /\ mpc' = "publish"
                /\ UNCHANGED m_exit
    /\ UNCHANGED <<st_layout, st_items, st_enabled, legacy_exists, api, rekeys,
                   rekeyed_before, pub_last, pub_prev, ready_seen,
                   enabled_items, fetched, handled, transcoded,
                   checksum>>

\* The statuses the store can answer POST metadata-layout/{checksum} with:
\* it creates the layout unless it has one, or fails.
PublishStatuses ==
    IF st_layout = "none" THEN {200, 201, 500} ELSE {409, 500}

\* ensure_metadata_layout: what the call reports for a status
PublishOutcome_ConflictFails(status) ==
    IF status \in {200, 201} THEN "created" ELSE "fatal"

PublishOutcome(status) ==
    IF status \in {200, 201} THEN "created"
    ELSE IF status = 409 THEN "already_exists"
    ELSE "fatal"

\* ensure_metadata_layout(checksum, "movie", movie); an exception of
\* requests.post is caught nowhere
MainPublish ==
    /\ mpc = "publish"
    /\ \/ \E status \in PublishStatuses :
            /\ pub_last' = [status |-> status,
                            outcome |-> PublishOutcome(status),
                            existed |-> (st_layout # "none")]
            /\ st_layout' = IF status \in {200, 201} THEN "pending"
                                                     ELSE st_layout
            /\ IF PublishOutcome(status) = "fatal"
               THEN MainFatal
               ELSE mpc' = "scan" /\ UNCHANGED m_exit
       \/ MainFatal /\ UNCHANGED <<pub_last, st_layout>>
    /\ Used("post_layout", checksum)
    /\ UNCHANGED <<st_discs, st_items, st_enabled, legacy_exists, api,
                   needs_post, rekeys, rekeyed_before, pub_prev, ready_seen,
                   enabled_items, fetched, handled, transcoded,
                   checksum>>

\* if metadata_items_exist(checksum): cleanup; else scan the titles (the
\* scan can exit) and POST each of them, a failed POST being only reported
MainScan ==
    /\ mpc = "scan"
    /\ IF st_items # {}
       THEN /\ mpc' = "rip"
            /\ Used("items_exist", checksum)
            /\ UNCHANGED <<m_exit, st_items, st_enabled>>
       ELSE \/ /\ MainFatal
               /\ Used("items_exist", checksum)
               /\ UNCHANGED <<st_items, st_enabled>>
            \/ \E stored \in SUBSET Titles :
                 /\ st_items' = stored
                 /\ st_enabled' = stored
                 /\ Used("post_items", checksum)
                 /\ mpc' = "rip"
                 /\ UNCHANGED m_exit
    /\ UNCHANGED <<st_discs, st_layout, legacy_exists, api, needs_post, rekeys,
                   rekeyed_before, pub_last, pub_prev, ready_seen,
                   enabled_items, fetched, handled, transcoded,
                   checksum>>

\* The temp files are reused, or run_makemkv rips the disc (and can exit);
\* then analyze_and_update_metadata.
MainRip ==
    /\ mpc = "rip"
    /\ \/ mpc' = "wait" /\ UNCHANGED m_exit
       \/ MainFatal
    /\ UNCHANGED <<st_discs, st_layout, st_items, st_enabled, legacy_exists,
                   api, needs_post, rekeys, rekeyed_before, pub_last, pub_prev,
                   ready_seen, enabled_items, fetched, handled, transcoded,
                   checksum, keys_used>>

\* One poll of wait_for_metadata_layout_ready(checksum)
MainWaitPoll_AnyStatus ==
    /\ mpc = "wait"
    /\ \E answered \in BOOLEAN :
        IF answered
        THEN /\ ready_seen' = (st_layout = "ready")
             /\ mpc' = "fetch"
        ELSE UNCHANGED <<ready_seen, mpc>>
    /\ Used("ready_poll", checksum)
    /\ UNCHANGED <<m_exit, st_discs, st_layout, st_items, st_enabled,
                   legacy_exists, api, needs_post, rekeys, rekeyed_before,
                   pub_last, pub_prev, enabled_items, fetched, handled,
                   transcoded,
                   checksum>>

MainWaitPoll ==
    /\ mpc = "wait"
    /\ \E answered \in BOOLEAN :
        IF answered /\ st_layout = "ready"
        THEN /\ ready_seen' = TRUE
             /\ mpc' = "fetch"
        ELSE UNCHANGED <<ready_seen, mpc>>
    /\ Used("ready_poll", checksum)
    /\ UNCHANGED <<m_exit, st_discs, st_layout, st_items, st_enabled,
                   legacy_exists, api, needs_post, rekeys, rekeyed_before,
                   pub_last, pub_prev, enabled_items, fetched, handled,
                   transcoded,
                   checksum>>

\* Ctrl+C during the wait
MainWaitInterrupt ==
    /\ mpc = "wait"
    /\ MainFatal
    /\ UNCHANGED <<st_discs, st_layout, st_items, st_enabled, legacy_exists,
                   api, needs_post, rekeys, rekeyed_before, pub_last, pub_prev,
                   ready_seen, enabled_items, fetched, handled, transcoded,
                   checksum, keys_used>>

\* enabled_items = get_enabled_metadata_items(checksum); none: sys.exit(1)
MainFetch ==
    /\ mpc = "fetch"
    /\ \/ /\ enabled_items' = st_enabled
          /\ fetched' = ready_seen
          /\ IF st_enabled = {} THEN MainFatal
             ELSE mpc' = "transcode" /\ UNCHANGED m_exit
       \/ MainFatal /\ UNCHANGED <<enabled_items, fetched>>  \* request failed
    /\ UNCHANGED <<st_discs, st_layout, st_items, st_enabled, legacy_exists,
                   api, needs_post, rekeys, rekeyed_before, pub_last, pub_prev,
                   ready_seen, handled, transcoded,
                   checksum, keys_used>>

\* One iteration of `for item in enabled_items`, in the list's order: no
\* MKV for the title is fatal, an existing output can be skipped, else
\* transcode(...).
MainTranscode ==
    /\ mpc = "transcode"
    /\ IF enabled_items \subseteq handled
       THEN mpc' = "done" /\ UNCHANGED <<m_exit, handled, transcoded>>
       ELSE LET item == CHOOSE i \in enabled_items \ handled :
                            \A j \in enabled_items \ handled : i <= j
            IN \/ MainFatal /\ UNCHANGED <<handled, transcoded>>
               \/ /\ handled' = handled \cup {item}
                  /\ UNCHANGED <<mpc, m_exit, transcoded>>
               \/ /\ handled' = handled \cup {item}
                  /\ transcoded' = transcoded \cup {item}
                  /\ UNCHANGED <<mpc, m_exit>>
    /\ UNCHANGED <<st_discs, st_layout, st_items, st_enabled, legacy_exists,
                   api, needs_post, rekeys, rekeyed_before, pub_last, pub_prev,
                   ready_seen, enabled_items, fetched,
                   checksum, keys_used>>

\* The program is started again on the same disc.
MainNextRun ==
    /\ mpc \in {"done", "exited"}
    /\ mpc' = "start" /\ m_exit' = 0
    /\ legacy_exists' = FALSE /\ api' = FALSE /\ needs_post' = FALSE
    /\ rekeyed_before' = (rekeyed_before
                          \/ \E i \in DOMAIN rekeys : rekeys[i].status = 200)
    /\ pub_prev' = IF pub_last.outcome \in {"created", "already_exists"}
                   THEN pub_last.outcome ELSE pub_prev
    /\ rekeys' = <<>> /\ pub_last' = NoCall
    /\ ready_seen' = FALSE /\ enabled_items' = {} /\ fetched' = FALSE
    /\ handled' = {} /\ transcoded' = {}
    /\ checksum' = NoDigest /\ keys_used' = {}
    /\ UNCHANGED storeVars

\* The reviewer marks the layout ready.
ReviewerSetsStatus ==
    /\ st_layout = "pending"
    /\ st_layout' = "ready"
    /\ UNCHANGED <<mpc, m_exit, st_discs, st_items, st_enabled, legacy_exists,
                   api, needs_post, rekeys, rekeyed_before, pub_last, pub_prev,
                   ready_seen, enabled_items, fetched, handled, transcoded,
                   checksum, keys_used>>

\* The reviewer enables or disables an item.
ReviewerToggles ==
    /\ st_layout = "pending"
    /\ \E item \in st_items :
          st_enabled' = IF item \in st_enabled THEN st_enabled \ {item}
                                               ELSE st_enabled \cup {item}
    /\ UNCHANGED <<mpc, m_exit, st_discs, st_layout, st_items, legacy_exists,
                   api, needs_post, rekeys, rekeyed_before, pub_last, pub_prev,
                   ready_seen, enabled_items, fetched, handled, transcoded,
                   checksum, keys_used>>

-----------------------------------------------------------------------------
(***************************************************************************)
(* _parse_duration_to_seconds and _parse_size_to_bytes.  A text is a       *)
(* sequence of characters.  A size is a natural number written in base     *)
(* 10000, least significant digit first, since it exceeds 2^31.            *)
(***************************************************************************)
UPPERCASE == <<"A", "B", "C", "D", "E", "F", "G", "H", "I", "J", "K", "L", "M",
               "N", "O", "P", "Q", "R", "S", "T", "U", "V", "W", "X", "Y", "Z">>

LOWERCASE == <<"a", "b", "c", "d", "e", "f", "g", "h", "i", "j", "k", "l", "m",
               "n", "o", "p", "q", "r", "s", "t", "u", "v", "w", "x", "y", "z">>

\* str.upper() and str.lower()
ToUpper(s) ==
    LET upper == [i \in DOMAIN s |->
                    IF \E k \in DOMAIN LOWERCASE : LOWERCASE[k] = s[i]
                    THEN UPPERCASE[CHOOSE k \in DOMAIN LOWERCASE :
                                      LOWERCASE[k] = s[i]]
                    ELSE s[i]]
    IN SubSeq(upper, 1, Len(s))

ToLower(s) ==
    LET lower == [i \in DOMAIN s |->
                    IF \E k \in DOMAIN UPPERCASE : UPPERCASE[k] = s[i]
                    THEN LOWERCASE[CHOOSE k \in DOMAIN UPPERCASE :
                                      UPPERCASE[k] = s[i]]
                    ELSE s[i]]
    IN SubSeq(lower, 1, Len(s))

\* sub in s
Contains(s, sub) ==
    \E i \in 0..(Len(s) - Len(sub)) : SubSeq(s, i + 1, i + Len(sub)) = sub

\* \s of the regular expressions
IsSpace(c) == c \in {" ", "\t"}

\* \d of the regular expressions
DIGITS == <<"0", "1", "2", "3", "4", "5", "6", "7", "8", "9">>

IsDigit(c) == \E k \in DOMAIN DIGITS : DIGITS[k] = c

DigitValue(c) == (CHOOSE k \in DOMAIN DIGITS : DIGITS[k] = c) - 1

\* int(text) for a text of digits
RECURSIVE IntOf(_)
IntOf(text) ==
    IF text = <<>> THEN 0
    ELSE 10 * IntOf(SubSeq(text, 1, Len(text) - 1))
             + DigitValue(text[Len(text)])

\* str.strip()
RECURSIVE Strip(_)
Strip(s) ==
    IF s = <<>> THEN s
    ELSE IF IsSpace(s[1]) THEN Strip(Tail(s))
    ELSE IF IsSpace(s[Len(s)]) THEN Strip(SubSeq(s, 1, Len(s) - 1))
    ELSE s

AllDigits(text) == \A i \in DOMAIN text : IsDigit(text[i])

\* What a parser gives: a value, None, or an exception.
Value(v) == [outcome |-> "value", value |-> v]

ParsedNone == [outcome |-> "None", value |-> <<>>]

Raised == [outcome |-> "raised", value |-> <<>>]

\* A natural number below 2^31 in base 10000.
RECURSIVE ToLimbs(_)
ToLimbs(n) ==
    IF n < 10000 THEN <<n>> ELSE <<n % 10000>> \o ToLimbs(n \div 10000)

\* _parse_duration_to_seconds: ^(\d+):(\d{2}):(\d{2})$ on the stripped text
parse_duration_to_seconds(s) ==
    LET t == Strip(s)
        n == Len(t)
    IN IF /\ n >= 7
          /\ t[n - 5] = ":" /\ t[n - 2] = ":"
          /\ AllDigits(SubSeq(t, 1, n - 6))
          /\ AllDigits(SubSeq(t, n - 4, n - 3))
          /\ AllDigits(SubSeq(t, n - 1, n))
       THEN Value(ToLimbs(IntOf(SubSeq(t, 1, n - 6)) * 3600
                          + IntOf(SubSeq(t, n - 4, n - 3)) * 60
                          + IntOf(SubSeq(t, n - 1, n))))
       ELSE ParsedNone

\* limbs * m, for 0 <= m < 10000
RECURSIVE MulCarry(_, _, _)
MulCarry(limbs, m, carry) ==
    IF limbs = <<>>
    THEN IF carry = 0 THEN <<>> ELSE <<carry>>
    ELSE LET p == limbs[1] * m + carry
         IN <<p % 10000>> \o MulCarry(Tail(limbs), m, p \div 10000)

\* No leading zero digit, zero being <<0>>.
RECURSIVE Normal(_)
Normal(limbs) ==
    IF Len(limbs) > 1 /\ limbs[Len(limbs)] = 0
    THEN Normal(SubSeq(limbs, 1, Len(limbs) - 1))
    ELSE limbs

MulSmall(limbs, m) == Normal(MulCarry(limbs, m, 0))

\* limbs // d, for 0 < d <= 1000: long division from the top digit
RECURSIVE DivRem(_, _, _)
DivRem(limbs, d, rem) ==
    IF limbs = <<>> THEN <<>>
    ELSE LET n == Len(limbs)
             cur == rem * 10000 + limbs[n]
         IN DivRem(SubSeq(limbs, 1, n - 1), d, cur % d) \o <<cur \div d>>

DivSmall(limbs, d) == Normal(DivRem(limbs, d, 0))

\* base ** k
RECURSIVE Power(_, _)
Power(base, k) ==
    IF k = 0 THEN <<1>> ELSE MulSmall(Power(base, k - 1), base)

RECURSIVE Pow10(_)
Pow10(d) == IF d = 0 THEN 1 ELSE 10 * Pow10(d - 1)

\* The text the group ([\d.]+) takes: the longest prefix of digits and dots.
RECURSIVE NumberPrefix(_)
NumberPrefix(t) ==
    IF t # <<>> /\ (IsDigit(t[1]) \/ t[1] = ".")
    THEN <<t[1]>> \o NumberPrefix(Tail(t))
    ELSE <<>>

RECURSIVE SkipSpaces(_)
SkipSpaces(t) ==
    IF t # <<>> /\ IsSpace(t[1]) THEN SkipSpaces(Tail(t)) ELSE t

\* ([KMGTP]i?B)$ with re.IGNORECASE
IsUnitText(u) ==
    LET up == ToUpper(u)
    IN \/ Len(up) = 2 /\ up[1] \in {"K", "M", "G", "T", "P"} /\ up[2] = "B"
       \/ Len(up) = 3 /\ up[1] \in {"K", "M", "G", "T", "P"} /\ up[2] = "I"
                      /\ up[3] = "B"

\* float(text) of a text of digits and dots is a number when the text has
\* a digit and at most one dot, and raises ValueError otherwise.
IsFloatText(text) ==
    /\ \E i \in DOMAIN text : IsDigit(text[i])
    /\ Cardinality({i \in DOMAIN text : text[i] = "."}) <= 1

Digits(text) == SelectSeq(text, IsDigit)

\* The number of digits after the dot.
Decimals(text) ==
    IF \E i \in DOMAIN text : text[i] = "."
    THEN Len(text) - (CHOOSE i \in DOMAIN text : text[i] = ".")
    ELSE 0

\* multipliers.get(unit), as the exponent k of base ** k
UnitExponent(unit) ==
    CASE unit = <<"K", "B">> -> 1
      [] unit = <<"M", "B">> -> 2
      [] unit = <<"G", "B">> -> 3
      [] unit = <<"T", "B">> -> 4
      [] unit = <<"P", "B">> -> 5
      [] OTHER -> 0

\* _parse_size_to_bytes, the IEC units taken as SI units
parse_size_to_bytes_AlwaysSI(s) ==
    LET t == Strip(s)
        number == NumberPrefix(t)
        unit == ToUpper(SkipSpaces(SubSeq(t, Len(number) + 1, Len(t))))
        short == IF Len(unit) = 3 THEN <<unit[1], unit[3]>> ELSE unit
    IN IF number = <<>> \/ ~IsUnitText(unit) THEN ParsedNone
       ELSE IF ~IsFloatText(number) THEN Raised
       ELSE IF UnitExponent(short) = 0 THEN ParsedNone
       ELSE Value(DivSmall(MulSmall(Power(1000, UnitExponent(short)),
                                    IntOf(Digits(number))),
                           Pow10(Decimals(number))))

\* _parse_size_to_bytes: ^([\d.]+)\s*([KMGTP]i?B)$, float(), the unit
\* uppercased, base 1024 and "IB" replaced by "B" for a unit ending in
\* "IB", int(value * mult); the product is taken exactly
parse_size_to_bytes(s) ==
    LET t == Strip(s)
        number == NumberPrefix(t)
        unit == ToUpper(SkipSpaces(SubSeq(t, Len(number) + 1, Len(t))))
        iec == Len(unit) = 3
        base == IF iec THEN 1024 ELSE 1000
        short == IF iec THEN <<unit[1], unit[3]>> ELSE unit
    IN IF number = <<>> \/ ~IsUnitText(unit) THEN ParsedNone
       ELSE IF ~IsFloatText(number) THEN Raised
       ELSE IF UnitExponent(short) = 0 THEN ParsedNone
       ELSE Value(DivSmall(MulSmall(Power(base, UnitExponent(short)),
                                    IntOf(Digits(number))),
                           Pow10(Decimals(number))))

\* The texts the parsers are given: a number, blanks and a unit between
\* blanks for a size; hours, minutes and seconds around a separator for a
\* duration.
SizeNumbers ==
    {<<"4", ".", "3">>,
     <<"4", "3">>,
     <<"0", ".", "5">>,
     <<".", "5">>,
     <<"5", ".">>,
     <<"8", "1", "2", ".", "0">>,
     <<"1", "2", ".", "5">>,
     <<"1", ".", "2", ".", "3">>,
     <<".">>,
     <<>>}

SizeUnits ==
    {<<"K", "B">>,
     <<"M", "B">>,
     <<"G", "B">>,
     <<"T", "B">>,
     <<"P", "B">>,
     <<"K", "i", "B">>,
     <<"M", "i", "B">>,
     <<"G", "i", "B">>,
     <<"T", "i", "B">>,
     <<"P", "i", "B">>,
     <<"g", "b">>,
     <<"G", "i", "b">>,
     <<"k", "I", "B">>,
     <<"B">>,
     <<"E", "B">>,
     <<"b", "y", "t", "e", "s">>}

Blanks == {<<>>, <<" ">>}

DurationHours == {<<"1">>, <<"0", "1">>, <<"1", "0", "0">>, <<>>}

DurationMinutes == {<<"4", "6">>, <<"6">>, <<"0", "0">>}

DurationSeconds == {<<"2", "0">>, <<"2">>, <<"5", "9">>}

DurationSeparators == {":", "."}

SizeParts == [pad : Blanks, number : SizeNumbers, sep : Blanks,
              unit : SizeUnits]

DurationParts == [pad : Blanks, number : DurationHours, sep : DurationSeparators,
                  unit : DurationMinutes \X DurationSeconds]

SizeText(parts) ==
    parts.pad \o parts.number \o parts.sep \o parts.unit \o parts.pad

DurationText(parts) ==
    parts.pad \o parts.number \o <<parts.sep>> \o parts.unit[1]
        \o <<parts.sep>> \o parts.unit[2] \o parts.pad

\* The texts before and behind a digit.digit token in the channel, name
\* and codec information of a stream
ChannelPrefixes == {<<>>, <<"D", "T", "S", " ">>, <<"S", "u", "r", "r", "o", "u", "n", "d", " ">>, <<"1">>, <<"v">>}

ChannelTokens ==
    {<<a, ".", b>> : a \in {"1", "2", "3", "5", "6", "7"},
                     b \in {"0", "1", "2", "5"}}

ChannelSuffixes == {<<>>, <<" ", "M", "b", "/", "s">>, <<"5">>, <<" ", "S", "t", "e", "r", "e", "o">>, <<" ", "M", "o", "n", "o">>}

ChannelParts == [pad : ChannelPrefixes, number : ChannelTokens, sep : {<<>>},
                 unit : ChannelSuffixes]

ChannelText(parts) == parts.pad \o parts.number \o parts.unit

\* \w of the regular expressions
IsWord(c) ==
    \/ IsDigit(c)
    \/ c = "_"
    \/ \E k \in DOMAIN UPPERCASE : c \in {UPPERCASE[k], LOWERCASE[k]}

\* \b([12567]\.[012])\b matches at position i of s
LayoutAt(s, i) ==
    /\ i + 2 <= Len(s)
    /\ s[i] \in {"1", "2", "5", "6", "7"}
    /\ s[i + 1] = "."
    /\ s[i + 2] \in {"0", "1", "2"}
    /\ i = 1 \/ ~IsWord(s[i - 1])
    /\ i + 2 = Len(s) \/ ~IsWord(s[i + 3])

\* The channel layout _parse_audio_track finds in all_info: the first match
\* of the pattern, else "2.0" for stereo, "1.0" for mono, "5.1" for
\* surround, else none.
parse_channel_layout(all_info) ==
    LET low == ToLower(all_info)
        matches == {i \in DOMAIN all_info : LayoutAt(all_info, i)}
    IN IF matches # {}
       THEN LET i == CHOOSE m \in matches : \A n \in matches : m <= n
            IN Value(SubSeq(all_info, i, i + 2))
       ELSE IF Contains(low, <<"s", "t", "e", "r", "e", "o">>) THEN Value(<<"2", ".", "0">>)
       ELSE IF Contains(low, <<"m", "o", "n", "o">>) THEN Value(<<"1", ".", "0">>)
       ELSE IF Contains(low, <<"s", "u", "r", "r", "o", "u", "n", "d">>) THEN Value(<<"5", ".", "1">>)
       ELSE ParsedNone

\* No parser has been called.
NoParse == [outcome |-> "pending", value |-> <<>>]

ParseIdle ==
    /\ ps_kind = "none"
    /\ ps_parts = [pad |-> <<>>, number |-> <<>>, sep |-> <<>>, unit |-> <<>>]
    /\ ps_text = <<>>
    /\ ps_result = NoParse

\* tinfo.get(9) or tinfo.get(10) of a title, or all_info of a stream
ParseInit ==
    /\ ps_kind \in {"duration", "size", "channel"}
    /\ ps_parts \in CASE ps_kind = "size" -> SizeParts
                      [] ps_kind = "duration" -> DurationParts
                      [] ps_kind = "channel" -> ChannelParts
    /\ ps_text = CASE ps_kind = "size" -> SizeText(ps_parts)
                   [] ps_kind = "duration" -> DurationText(ps_parts)
                   [] ps_kind = "channel" -> ChannelText(ps_parts)
    /\ ps_result = NoParse

\* duration_seconds = _parse_duration_to_seconds(length)
ParseDuration ==
    /\ ps_kind = "duration"
    /\ ps_result = NoParse
    /\ ps_result' = parse_duration_to_seconds(ps_text)
    /\ UNCHANGED <<ps_kind, ps_parts, ps_text>>

\* size_bytes = _parse_size_to_bytes(size)
ParseSize ==
    /\ ps_kind = "size"
    /\ ps_result = NoParse
    /\ ps_result' = parse_size_to_bytes(ps_text)
    /\ UNCHANGED <<ps_kind, ps_parts, ps_text>>

\* The channel layout of _parse_audio_track
ParseChannel ==
    /\ ps_kind = "channel"
    /\ ps_result = NoParse
    /\ ps_result' = parse_channel_layout(ps_text)
    /\ UNCHANGED <<ps_kind, ps_parts, ps_text>>

-----------------------------------------------------------------------------
(***************************************************************************)
(* scan_titles_with_makemkv.  A line of the output is the record of the    *)
(* groups its regular expression takes: TINFO:title,attr,code,"value",     *)
(* SINFO:title,stream,attr,code,"value", an angle announcement, or         *)
(* another line.                                                           *)
(***************************************************************************)
MaxScanLines == 4    \* lines of a scan output

Tinfo(title, attr, value) ==
    [kind |-> "TINFO", title |-> title, stream |-> 0, attr |-> attr,
     code |-> 0, value |-> value]

Sinfo(title, stream, attr, code, value) ==
    [kind |-> "SINFO", title |-> title, stream |-> stream, attr |-> attr,
     code |-> code, value |-> value]

\* "Angle #2 was added for title #3"
AngleLine ==
    [kind |-> "ANGLE", title |-> 3, stream |-> 0, attr |-> 0, code |-> 2,
     value |-> <<>>]

\* A line that no pattern matches.
OtherLine ==
    [kind |-> "OTHER", title |-> 0, stream |-> 0, attr |-> 0, code |-> 0,
     value |-> <<>>]

\* The texts of the lines.
HourText == <<"0", "1", ":", "0", "0", ":", "0", "0">>

HourAndHalfText == <<"0", "1", ":", "3", "0", ":", "0", "0">>

ShortText == <<"1", ":", "2">>

SizeGBText == <<"4", ".", "3", " ", "G", "B">>

SizeBadText == <<"1", ".", "2", ".", "3", " ", "G", "B">>

MainText == <<"M", "a", "i", "n">>

AudioText == <<"A", "u", "d", "i", "o">>

SubtitlesText == <<"S", "u", "b", "t", "i", "t", "l", "e", "s">>

VideoText == <<"V", "i", "d", "e", "o">>

EngText == <<"e", "n", "g">>

\* The lines a scan output is made of.  Attribute 9 of a title is its
\* length, 10 its size, 2 its name; attribute 1 of a stream is its type,
\* with the code of the DVD or of the Blu-ray dialect, 3 its language.
ScanPool ==
    {Tinfo(0, 9, HourText), Tinfo(0, 9, ShortText),
     Tinfo(1, 9, HourText), Tinfo(1, 2, MainText),
     Tinfo(2, 9, HourAndHalfText), Tinfo(2, 9, HourText),
     Tinfo(0, 10, SizeGBText), Tinfo(0, 10, SizeBadText),
     Sinfo(0, 0, 1, 6206, VideoText),
     Sinfo(0, 1, 1, 6201, AudioText), Sinfo(0, 1, 1, 6202, AudioText),
     Sinfo(0, 2, 1, 6202, SubtitlesText), Sinfo(0, 2, 1, 6203, SubtitlesText),
     Sinfo(0, 1, 3, 0, EngText),
     Sinfo(1, 1, 1, 6201, AudioText),
     AngleLine, OtherLine}

\* MakeMKV writes an attribute of a title or of a stream once.
LineKey(l) == <<l.kind, l.title, l.stream, l.attr>>

ScanOutputs ==
    {S \in SUBSET ScanPool :
        /\ Cardinality(S) <= MaxScanLines
        /\ \A l, m \in S : LineKey(l) = LineKey(m) => l = m}

ScanIdle ==
    /\ sc_input = {} /\ sc_pending = {}
    /\ titles_tinfo = <<>> /\ tinfo_order = <<>> /\ titles_sinfo = <<>>
    /\ angles_detected = FALSE
    /\ sc_pc = "idle" /\ sc_results = <<>>

\* output_lines = _run_makemkv_info(make_mkv_path), the dictionaries empty
ScanInit ==
    /\ sc_input \in ScanOutputs
    /\ sc_pending = sc_input
    /\ titles_tinfo = <<>> /\ tinfo_order = <<>> /\ titles_sinfo = <<>>
    /\ angles_detected = FALSE
    /\ sc_pc = "reading" /\ sc_results = <<>>

\* d.get(key, {}) of a dictionary
Get(d, key) == IF key \in DOMAIN d THEN d[key] ELSE <<>>

\* d[key] = value
Put(d, key, value) ==
    [k \in DOMAIN d \cup {key} |-> IF k = key THEN value ELSE d[k]]

\* One iteration of `for line in output_lines`, the lines coming in any
\* order.
ScanLine ==
    /\ sc_pc = "reading"
    /\ \E line \in sc_pending :
        /\ sc_pending' = sc_pending \ {line}
        /\ angles_detected' = (angles_detected \/ line.kind = "ANGLE")
        /\ IF line.kind = "TINFO"
           THEN /\ titles_tinfo' =
                      Put(titles_tinfo, line.title,
                          Put(Get(titles_tinfo, line.title), line.attr,
                              line.value))
                /\ tinfo_order' = IF line.title \in DOMAIN titles_tinfo
                                  THEN tinfo_order
                                  ELSE Append(tinfo_order, line.title)
           ELSE UNCHANGED <<titles_tinfo, tinfo_order>>
        /\ IF line.kind = "SINFO"
           THEN titles_sinfo' =
                    Put(titles_sinfo, line.title,
                        Put(Get(titles_sinfo, line.title), line.stream,
                            Put(Get(Get(titles_sinfo, line.title),
                                    line.stream),
                                line.attr, line.value)))
           ELSE UNCHANGED titles_sinfo
    /\ UNCHANGED <<sc_input, sc_pc, sc_results>>

\* sorted(keys)
RECURSIVE Sorted(_)
Sorted(keys) ==
    IF keys = {} THEN <<>>
    ELSE LET least == CHOOSE x \in keys : \A y \in keys : x <= y
         IN <<least>> \o Sorted(keys \ {least})

\* is_audio / is_subtitle, the type value compared as it is written
StreamKind_CaseSensitive(stream_info) ==
    LET type_str == Get(stream_info, 1)
    IN IF Contains(type_str, <<"a", "u", "d", "i", "o">>) THEN "audio"
       ELSE IF Contains(type_str, <<"s", "u", "b", "t", "i", "t", "l", "e">>) THEN "subtitle"
       ELSE "skipped"

\* type_str = type_value.lower(); is_audio = "audio" in type_str;
\* is_subtitle = "subtitle" in type_str
StreamKind(stream_info) ==
    LET type_str == ToLower(Get(stream_info, 1))
    IN IF Contains(type_str, <<"a", "u", "d", "i", "o">>) THEN "audio"
       ELSE IF Contains(type_str, <<"s", "u", "b", "t", "i", "t", "l", "e">>) THEN "subtitle"
       ELSE "skipped"

\* _parse_audio_track and _parse_subtitle_track, as far as the stream's
\* index, type and language code
ParseTrack(stream_index, stream_info) ==
    [stream_index |-> stream_index,
     type |-> StreamKind(stream_info),
     language_code |-> IF 3 \in DOMAIN stream_info THEN stream_info[3]
                                                   ELSE <<"u", "n", "d">>,
     enabled |-> TRUE]

\* The tracks of a kind among the streams, `for stream_index in
\* sorted(sinfo.keys())`
RECURSIVE TracksOf(_, _, _)
TracksOf(sinfo, streams, kind) ==
    IF streams = <<>> THEN <<>>
    ELSE LET track == ParseTrack(streams[1], sinfo[streams[1]])
             rest == TracksOf(sinfo, Tail(streams), kind)
         IN IF track.type = kind THEN <<track>> \o rest ELSE rest

\* The dict appended to results for a title.
TitleOf(title_index) ==
    LET tinfo == Get(titles_tinfo, title_index)
        sinfo == Get(titles_sinfo, title_index)
        length == Get(tinfo, 9)
        size == Get(tinfo, 10)
    IN [title_index |-> title_index,
        name |-> Get(tinfo, 2),
        length |-> length,
        duration_seconds |-> IF length # <<>>
                             THEN parse_duration_to_seconds(length)
                             ELSE ParsedNone,
        size |-> size,
        size_bytes |-> IF size # <<>> THEN parse_size_to_bytes(size)
                                      ELSE ParsedNone,
        source_file |-> Get(tinfo, 27),
        audio_tracks |-> TracksOf(sinfo, Sorted(DOMAIN sinfo), "audio"),
        subtitle_tracks |-> TracksOf(sinfo, Sorted(DOMAIN sinfo), "subtitle"),
        raw |-> [tinfo |-> tinfo, sinfo |-> sinfo]]

\* The order of the results, the dictionary's keys taken as they were
\* inserted
ResultOrder_Insertion == tinfo_order

\* for title_index in sorted(titles_tinfo.keys())
ResultOrder == Sorted(DOMAIN titles_tinfo)

\* The filter of angle duplicates, seen_durations never filled
RECURSIVE FilterAngles_KeepsAll(_, _)
FilterAngles_KeepsAll(results, seen_durations) ==
    IF results = <<>> THEN <<>>
    ELSE IF results[1].duration_seconds \in seen_durations
    THEN FilterAngles_KeepsAll(Tail(results), seen_durations)
    ELSE <<results[1]>> \o FilterAngles_KeepsAll(Tail(results), seen_durations)

\* for item in results: if duration in seen_durations: skip; else:
\* seen_durations[duration] = title_idx; filtered_results.append(item)
RECURSIVE FilterAngles(_, _)
FilterAngles(results, seen_durations) ==
    IF results = <<>> THEN <<>>
    ELSE IF results[1].duration_seconds \in seen_durations
    THEN FilterAngles(Tail(results), seen_durations)
    ELSE <<results[1]>>
            \o FilterAngles(Tail(results),
                            seen_durations \cup {results[1].duration_seconds})

\* The results are built and returned; an exception of a parser ends the
\* scan.
ScanBuild ==
    /\ sc_pc = "reading"
    /\ sc_pending = {}
    /\ LET order == ResultOrder
           results == [i \in DOMAIN order |-> TitleOf(order[i])]
       IN IF \E i \in DOMAIN results : results[i].size_bytes = Raised
          THEN sc_pc' = "raised" /\ sc_results' = <<>>
          ELSE /\ sc_pc' = "returned"
               /\ sc_results' = IF angles_detected /\ Len(results) > 1
                                THEN FilterAngles(results, {})
                                ELSE results
    /\ UNCHANGED <<sc_input, sc_pending, titles_tinfo, tinfo_order,
                   titles_sinfo, angles_detected>>

-----------------------------------------------------------------------------
(***************************************************************************)
(* The selection of audio tracks: get_audio_track_score and                *)
(* apply_audio_track_preferences.                                          *)
(***************************************************************************)

MaxTracks == 3    \* audio tracks of an item

\* An audio track of a stored item, as far as the selection reads it.
AudioTrack(channel_format, codec_name, codec_format, is_atmos, is_commentary) ==
    [channel_format |-> channel_format, codec_name |-> codec_name,
     codec_format |-> codec_format, is_atmos |-> is_atmos,
     is_commentary |-> is_commentary, enabled |-> TRUE]

TrueHDAtmos71 ==
    AudioTrack(<<"7", ".", "1", " ", "S", "u", "r", "r", "o", "u", "n", "d">>,
               <<"D", "o", "l", "b", "y", " ", "T", "r", "u", "e", "H", "D",
                 " ", "A", "t", "m", "o", "s", " ", "7", ".", "1">>,
               <<"A", "_", "T", "R", "U", "E", "H", "D">>, TRUE, FALSE)

TrueHD71 ==
    AudioTrack(<<"7", ".", "1", " ", "S", "u", "r", "r", "o", "u", "n", "d">>,
               <<"D", "o", "l", "b", "y", " ", "T", "r", "u", "e", "H", "D",
                 " ", "7", ".", "1">>,
               <<"A", "_", "T", "R", "U", "E", "H", "D">>, FALSE, FALSE)

DtsX71 ==
    AudioTrack(<<"7", ".", "1", " ", "S", "u", "r", "r", "o", "u", "n", "d">>,
               <<"D", "T", "S", ":", "X", " ", "7", ".", "1">>,
               <<"A", "_", "D", "T", "S", ":", "X">>, FALSE, FALSE)

AC351 ==
    AudioTrack(<<"5", ".", "1", " ", "S", "u", "r", "r", "o", "u", "n", "d">>,
               <<"D", "o", "l", "b", "y", " ", "D", "i", "g", "i", "t", "a",
                 "l", " ", "5", ".", "1">>,
               <<"A", "_", "A", "C", "3">>, FALSE, FALSE)

AC3Stereo ==
    AudioTrack(<<"S", "t", "e", "r", "e", "o">>,
               <<"D", "o", "l", "b", "y", " ", "D", "i", "g", "i", "t", "a",
                 "l", " ", "2", ".", "0">>,
               <<"A", "_", "A", "C", "3">>, FALSE, FALSE)

AC3Mono ==
    AudioTrack(<<"M", "o", "n", "o">>,
               <<"D", "o", "l", "b", "y", " ", "D", "i", "g", "i", "t", "a",
                 "l", " ", "1", ".", "0">>,
               <<"A", "_", "A", "C", "3">>, FALSE, FALSE)

\* A layout without a weight
Dts21 ==
    AudioTrack(<<"2", ".", "1">>,
               <<"D", "T", "S", " ", "2", ".", "1">>,
               <<"A", "_", "D", "T", "S">>, FALSE, FALSE)

Commentary ==
    AudioTrack(<<"S", "t", "e", "r", "e", "o">>,
               <<"D", "o", "l", "b", "y", " ", "D", "i", "g", "i", "t", "a",
                 "l", " ", "2", ".", "0">>,
               <<"A", "_", "A", "C", "3">>, FALSE, TRUE)

TrackPool ==
    {TrueHDAtmos71, TrueHD71, DtsX71, AC351, AC3Stereo, AC3Mono, Dts21,
     Commentary}

TrackLists ==
    UNION {[1..n -> TrackPool] : n \in 0..MaxTracks}

\* audio_quality_preference, and a value the code does not know
Policies == {"best", "lossless", "lossy", "original"}

\* The settings get_user_settings returns: the user's, with or without the
\* two keys of the selection (an empty dict when the request fails)
UserSettings ==
    [notification_service : {"none"}, audio_quality_preference : Policies,
     include_commentary : BOOLEAN]
      \cup [notification_service : {"none"},
            audio_quality_preference : Policies]
      \cup [notification_service : {"none"}, include_commentary : BOOLEAN]
      \cup [notification_service : {"none"}]

\* settings.get(key, default)
SettingsGet(settings, key, default) ==
    IF key \in DOMAIN settings THEN settings[key] ELSE default

AudioIdle ==
    /\ updated_tracks = <<>>
    /\ user_settings = [notification_service |-> "none",
                        audio_quality_preference |-> "best",
                        include_commentary |-> FALSE]
    /\ apc = "idle"

AudioInit ==
    /\ updated_tracks \in TrackLists
    /\ user_settings \in UserSettings
    /\ apc = "start"

\* The codec names of the lossless test in get_audio_track_score
ScoreLossless == {<<"t", "r", "u", "e", "h", "d">>, <<"d", "t", "s", "-", "h", "d">>, <<"d", "t", "s", ":", "x">>, <<"f", "l", "a", "c">>, <<"p", "c", "m">>, <<"l", "p", "c", "m">>}

\* The codec names of the lossless test in apply_audio_track_preferences
PolicyLossless == {<<"t", "r", "u", "e", "h", "d">>, <<"d", "t", "s", "-", "h", "d">>, <<"f", "l", "a", "c">>, <<"p", "c", "m">>, <<"l", "p", "c", "m">>}

\* any(x in codec_name or x in codec_format for x in [...])
HasLosslessBonus(track) ==
    LET codec_name == ToLower(track.codec_name)
        codec_format == ToLower(track.codec_format)
    IN \E x \in ScoreLossless :
          Contains(codec_name, x) \/ Contains(codec_format, x)

\* any(x in codec for x in [...]), codec the lowercased codec_name
IsLosslessTrack(track) ==
    LET codec == ToLower(track.codec_name)
    IN \E x \in PolicyLossless : Contains(codec, x)

get_audio_track_score(track) ==
    LET channel_format == ToLower(track.channel_format)
        layout == IF Contains(channel_format, <<"7", ".", "1">>) THEN 400
                  ELSE IF Contains(channel_format, <<"5", ".", "1">>) THEN 300
                  ELSE IF \/ Contains(channel_format, <<"s", "t", "e", "r", "e", "o">>)
                          \/ Contains(channel_format, <<"2", ".", "0">>) THEN 200
                  ELSE IF \/ Contains(channel_format, <<"m", "o", "n", "o">>)
                          \/ Contains(channel_format, <<"1", ".", "0">>) THEN 100
                  ELSE 0
    IN layout + (IF HasLosslessBonus(track) THEN 50 ELSE 0)
              + (IF track.is_atmos THEN 25 ELSE 0)

\* A step of a sort that puts a track before the tracks of its own score
InsertByScore_BeforeEqual(audio_tracks, sorted, p) ==
    LET before == Cardinality({i \in DOMAIN sorted :
                     get_audio_track_score(audio_tracks[sorted[i]])
                        > get_audio_track_score(audio_tracks[p])})
    IN SubSeq(sorted, 1, before) \o <<p>>
          \o SubSeq(sorted, before + 1, Len(sorted))

\* A step of sorted(..., reverse=True), which is stable: the track goes
\* behind the tracks of a score at least its own.
InsertByScore(audio_tracks, sorted, p) ==
    LET before == Cardinality({i \in DOMAIN sorted :
                     get_audio_track_score(audio_tracks[sorted[i]])
                        >= get_audio_track_score(audio_tracks[p])})
    IN SubSeq(sorted, 1, before) \o <<p>>
          \o SubSeq(sorted, before + 1, Len(sorted))

\* sorted(main_tracks, key=get_audio_track_score, reverse=True), the tracks
\* named by their positions in audio_tracks
RECURSIVE SortedByScore(_, _)
SortedByScore(audio_tracks, main_tracks) ==
    IF main_tracks = <<>> THEN <<>>
    ELSE InsertByScore(audio_tracks,
                       SortedByScore(audio_tracks,
                                     SubSeq(main_tracks, 1,
                                            Len(main_tracks) - 1)),
                       main_tracks[Len(main_tracks)])

\* The positions of the tracks that are not commentary, in list order
MainTracks(audio_tracks) ==
    SelectSeq([p \in DOMAIN audio_tracks |-> p],
              LAMBDA p : ~audio_tracks[p].is_commentary)

\* A selection that takes the commentary tracks for main tracks
apply_audio_track_preferences_CommentaryScored(audio_tracks, settings) ==
    LET audio_quality ==
            SettingsGet(settings, "audio_quality_preference", "best")
        main_tracks_sorted ==
            SortedByScore(audio_tracks, [p \in DOMAIN audio_tracks |-> p])
        enabled(p) ==
            CASE audio_quality = "best" -> p = main_tracks_sorted[1]
              [] audio_quality = "lossless" -> IsLosslessTrack(audio_tracks[p])
              [] audio_quality = "lossy" -> ~IsLosslessTrack(audio_tracks[p])
              [] OTHER -> FALSE
    IN IF audio_tracks = <<>> THEN audio_tracks
       ELSE [p \in DOMAIN audio_tracks |->
                [audio_tracks[p] EXCEPT !.enabled = enabled(p)]]

\* apply_audio_track_preferences: the list with its enabled flags set
apply_audio_track_preferences(audio_tracks, settings) ==
    LET main_tracks == MainTracks(audio_tracks)
        include_commentary ==
            SettingsGet(settings, "include_commentary", FALSE)
        audio_quality ==
            SettingsGet(settings, "audio_quality_preference", "best")
        main_tracks_sorted == SortedByScore(audio_tracks, main_tracks)
        enabled(p) ==
            IF audio_tracks[p].is_commentary
            THEN include_commentary
            ELSE CASE audio_quality = "best" -> p = main_tracks_sorted[1]
                   [] audio_quality = "lossless" ->
                          IsLosslessTrack(audio_tracks[p])
                   [] audio_quality = "lossy" ->
                          ~IsLosslessTrack(audio_tracks[p])
                   [] OTHER -> FALSE
    IN IF audio_tracks = <<>> THEN audio_tracks
       ELSE [p \in DOMAIN audio_tracks |->
                [audio_tracks[p] EXCEPT !.enabled = enabled(p)]]

\* updated_tracks = apply_audio_track_preferences(updated_tracks, settings)
ApplyPreferences ==
    /\ apc = "start"
    /\ updated_tracks' =
          apply_audio_track_preferences(updated_tracks, user_settings)
    /\ apc' = "done"
    /\ UNCHANGED user_settings

-----------------------------------------------------------------------------
(***************************************************************************)
(* Angle duplicates over two runs: the first run scans the disc and stores *)
(* the titles returned, a later run finds the items stored and calls       *)
(* cleanup_angle_duplicates.                                               *)
(***************************************************************************)

MaxItems == 3    \* titles of a disc

\* duration_seconds of a title: 3600, 5400, or None
Durations == {Value(ToLimbs(3600)), Value(ToLimbs(5400)), ParsedNone}

\* The titles of a disc as the scan builds them, before the filter.
TitleLists ==
    UNION {{[i \in 1..n |-> [title_index |-> i - 1,
                             duration_seconds |-> durations[i]]] :
              durations \in [1..n -> Durations]} : n \in 0..MaxItems}

CleanupIdle ==
    /\ cu_titles = <<>> /\ cu_angles = FALSE /\ cu_pc = "idle"
    /\ cu_items = <<>> /\ cu_failed = {}

CleanupInit ==
    /\ cu_titles \in TitleLists
    /\ cu_angles \in BOOLEAN
    /\ cu_pc = "scan"
    /\ cu_items = <<>> /\ cu_failed = {}

\* The items cleanup_angle_duplicates takes for duplicates: those whose
\* duration, not None, is the duration of an earlier item.
Duplicates(items) ==
    IF Len(items) <= 1 THEN {}
    ELSE {i \in DOMAIN items :
            /\ items[i].duration_seconds # ParsedNone
            /\ \E j \in 1..(i - 1) :
                  items[j].duration_seconds = items[i].duration_seconds}

\* The list without the items at the positions removed
Without(items, removed) ==
    SelectSeq([i \in DOMAIN items |-> [at |-> i, item |-> items[i]]],
              LAMBDA e : e.at \notin removed)

\* The first run: metadata_items_exist is False, the scan returns the titles
\* (filtered when angles were announced and there is more than one) and
\* each is stored.
CleanupFirstRun ==
    /\ cu_pc = "scan"
    /\ cu_items' = IF cu_angles /\ Len(cu_titles) > 1
                   THEN FilterAngles(cu_titles, {})
                   ELSE cu_titles
    /\ cu_pc' = "stored"
    /\ UNCHANGED <<cu_titles, cu_angles, cu_failed>>

\* A later run: metadata_items_exist is True, cleanup_angle_duplicates
\* fetches the items (or fails to) and deletes the duplicates, each delete
\* succeeding or not.
CleanupLaterRun ==
    /\ cu_pc \in {"stored", "skipped", "cleaned"}
    /\ Len(cu_items) > 0
    /\ \/ /\ cu_pc' = "skipped"                      \* the GET failed
          /\ UNCHANGED <<cu_items, cu_failed>>
       \/ \E failed \in SUBSET Duplicates(cu_items) :
            /\ cu_failed' = {cu_items[i].title_index : i \in failed}
            /\ cu_items' =
                 LET kept == Without(cu_items, Duplicates(cu_items) \ failed)
                 IN [i \in DOMAIN kept |-> kept[i].item]
            /\ cu_pc' = "cleaned"
    /\ UNCHANGED <<cu_titles, cu_angles>>

-----------------------------------------------------------------------------
(***************************************************************************)
(* transcode: the audio and subtitle selections of the HandBrake command.  *)
(***************************************************************************)

\* A track of an item as transcode reads it: with its enabled flag, or
\* without one.
FlaggedTracks == {[enabled |-> TRUE, language |-> "eng"],
                  [enabled |-> FALSE, language |-> "eng"],
                  [language |-> "eng"]}

FlaggedLists == UNION {[1..n -> FlaggedTracks] : n \in 0..MaxTracks}

\* No selection argument in the command.
NoSelection == [option |-> "none", tracks |-> <<>>]

TranscodeIdle ==
    /\ tc_audio = <<>> /\ tc_subtitles = <<>> /\ tc_pc = "idle"
    /\ cmd = [audio |-> NoSelection, subtitle |-> NoSelection]

TranscodeInit ==
    /\ tc_audio \in FlaggedLists
    /\ tc_subtitles \in FlaggedLists
    /\ tc_pc = "start"
    /\ cmd = [audio |-> NoSelection, subtitle |-> NoSelection]

\* for i, track in enumerate(tracks, start=1): if track.get("enabled",
\* True): enabled.append(str(i))
EnabledNumbers(tracks) ==
    SelectSeq([i \in DOMAIN tracks |-> i],
              LAMBDA i : SettingsGet(tracks[i], "enabled", TRUE))

\* The audio selection: --audio with the enabled tracks' numbers, --audio 1
\* when none is enabled, --all-audio without track data
AudioSelection(audio_tracks) ==
    IF audio_tracks # <<>>
    THEN IF EnabledNumbers(audio_tracks) # <<>>
         THEN [option |-> "--audio", tracks |-> EnabledNumbers(audio_tracks)]
         ELSE [option |-> "--audio", tracks |-> <<1>>]
    ELSE [option |-> "--all-audio", tracks |-> <<>>]

\* The subtitle selection: --subtitle with the enabled tracks' numbers, no
\* argument when none is enabled, --all-subtitles without track data
SubtitleSelection(subtitle_tracks) ==
    IF subtitle_tracks # <<>>
    THEN IF EnabledNumbers(subtitle_tracks) # <<>>
         THEN [option |-> "--subtitle",
               tracks |-> EnabledNumbers(subtitle_tracks)]
         ELSE NoSelection
    ELSE [option |-> "--all-subtitles", tracks |-> <<>>]

\* transcode(...) builds the command and runs it.
Transcode ==
    /\ tc_pc = "start"
    /\ cmd' = [audio |-> AudioSelection(tc_audio),
               subtitle |-> SubtitleSelection(tc_subtitles)]
    /\ tc_pc' = "run"
    /\ UNCHANGED <<tc_audio, tc_subtitles>>

-----------------------------------------------------------------------------
(***************************************************************************)
(* analyze_and_update_metadata: the audio analysis of the ripped titles    *)
(* and the PATCH of their tracks.  The layout has one item.                *)
(***************************************************************************)

MaxAnalyzed == 2

Pending == <<"p", "e", "n", "d", "i", "n", "g">>
Ready == <<"r", "e", "a", "d", "y">>
ReadyUpper == <<"R", "E", "A", "D", "Y">>

\* The layout the store answers with: with a status, or without one
Layouts ==
    [checksum : {"canonical"}, status : {Pending, Ready, ReadyUpper}]
      \cup [checksum : {"canonical"}]

\* The tracks of the store's item: as classified by the scan, with or without
\* a stream_index
AnalyzedPool ==
    {Put(AC351, "stream_index", 0), Put(Commentary, "stream_index", 1),
     AC351}

AnalyzedLists == UNION {[1..n -> AnalyzedPool] : n \in 0..MaxAnalyzed}

\* dynamic_range in tenths of a dB
DynamicRanges == {150, 200}

\* is_likely_commentary = dynamic_range < 20
CommentaryBelow == 200

\* analyze_audio_track returned None
NoAnalysis == [found |-> FALSE]

analyze_audio_track(dynamic_range) ==
    [found |-> TRUE, dynamic_range |-> dynamic_range,
     is_likely_commentary |-> dynamic_range < CommentaryBelow]

Analyses == {NoAnalysis} \cup {analyze_audio_track(d) : d \in DynamicRanges}

\* get_user_settings: the user's settings, or {} when they cannot be had
AnalysisSettings ==
    {s \in UserSettings :
        \/ DOMAIN s = {"notification_service"}
        \/ DOMAIN s = {"notification_service", "audio_quality_preference",
                       "include_commentary"}}

AnalyzeIdle ==
    /\ an_pc = "idle"
    /\ an_layout = [checksum |-> "canonical"]
    /\ an_tracks = <<>> /\ an_fetched = <<>> /\ an_patches = <<>>
    /\ an_settings = [notification_service |-> "none"]
    /\ an_status_req = "none"

AnalyzeInit ==
    /\ an_pc = "start"
    /\ an_layout \in Layouts
    /\ an_tracks \in AnalyzedLists
    /\ an_settings \in AnalysisSettings
    /\ an_fetched = <<>> /\ an_patches = <<>>
    /\ an_status_req = "none"

\* The body of the loop of analyze_audio_tracks_for_title over one track,
\* `analysis` being what analyze_audio_track returned for it
AnalyzedTrack_FlagFromAnalysis(track, analysis) ==
    IF "stream_index" \notin DOMAIN track THEN track
    ELSE IF ~analysis.found THEN track
    ELSE [Put(track, "dynamic_range", analysis.dynamic_range)
            EXCEPT !.is_commentary = analysis.is_likely_commentary]

AnalyzedTrack(track, analysis) ==
    IF "stream_index" \notin DOMAIN track THEN track
    ELSE IF ~analysis.found THEN track
    ELSE LET track_copy == Put(track, "dynamic_range", analysis.dynamic_range)
         IN IF ~track_copy.is_commentary /\ analysis.is_likely_commentary
            THEN [track_copy EXCEPT !.is_commentary = TRUE]
            ELSE track_copy

analyze_audio_tracks_for_title(tracks, analyses) ==
    IF tracks = <<>> THEN tracks
    ELSE [p \in DOMAIN tracks |-> AnalyzedTrack(tracks[p], analyses[p])]

\* The status request and the test of its answer
AnalyzeCheckStatus_AlwaysContinues ==
    /\ an_pc = "start"
    /\ \E outcome \in {"200", "500", "exception"} :
        /\ an_status_req' = outcome
        /\ an_pc' = "fetch"
    /\ UNCHANGED <<an_layout, an_tracks, an_settings, an_fetched,
                   an_patches>>

AnalyzeCheckStatus ==
    /\ an_pc = "start"
    /\ \E outcome \in {"200", "500", "exception"} :
        /\ an_status_req' = outcome
        /\ IF /\ outcome = "200"
              /\ ToLower(SettingsGet(an_layout, "status", <<>>)) = Ready
           THEN an_pc' = "done"
           ELSE an_pc' = "fetch"
    /\ UNCHANGED <<an_layout, an_tracks, an_settings, an_fetched,
                   an_patches>>

\* The request for the layout's items
AnalyzeFetchItems ==
    /\ an_pc = "fetch"
    /\ \E answered \in BOOLEAN :
        IF answered
        THEN /\ an_fetched' = an_tracks
             /\ an_pc' = "item"
        ELSE /\ an_pc' = "done"
             /\ UNCHANGED an_fetched
    /\ UNCHANGED <<an_layout, an_tracks, an_settings, an_status_req,
                   an_patches>>

\* The body of the loop over the items: the analysis of the item's tracks,
\* the selection pass and the PATCH
AnalyzeItem ==
    /\ an_pc = "item"
    /\ an_pc' = "done"
    /\ \E has_mkv \in BOOLEAN :
        IF an_fetched = <<>> \/ ~has_mkv
        THEN UNCHANGED <<an_tracks, an_patches>>
        ELSE \E analyses \in [DOMAIN an_fetched -> Analyses],
                patched \in BOOLEAN :
               LET analyzed ==
                       analyze_audio_tracks_for_title(an_fetched, analyses)
                   updated ==
                       apply_audio_track_preferences(analyzed, an_settings)
               IN /\ an_patches' = Append(an_patches, updated)
                  /\ an_tracks' = IF patched THEN updated ELSE an_tracks
    /\ UNCHANGED <<an_layout, an_settings, an_status_req, an_fetched>>

-----------------------------------------------------------------------------
(***************************************************************************)
(* The specifications, one for each part.                                  *)
(***************************************************************************)
InitRunner ==
    /\ RunnerInit /\ WaitIdle /\ FpIdle /\ MainIdle /\ ParseIdle /\ ScanIdle
    /\ AudioIdle /\ CleanupIdle
    /\ TranscodeIdle
    /\ AnalyzeIdle

\* What the runners leave alone.
runnerFrame ==
    <<waitVars, fpVars, mainVars, parseVars, scanVars, audioVars,
      cleanupVars,
      transcodeVars,
      analyzeVars>>

NextRunner ==
    \/ RipLaunch /\ UNCHANGED runnerFrame
    \/ RipLoopEnd /\ UNCHANGED runnerFrame
    \/ RipReadLine /\ UNCHANGED runnerFrame
    \/ RipEndOfOutput /\ UNCHANGED runnerFrame
    \/ RipNoError /\ UNCHANGED runnerFrame
    \/ RipErrorDetected /\ UNCHANGED runnerFrame
    \/ RipWaitPoll /\ UNCHANGED runnerFrame
    \/ ScanLaunch /\ UNCHANGED runnerFrame
    \/ ScanReadLine /\ UNCHANGED runnerFrame
    \/ ScanEndOfOutput /\ UNCHANGED runnerFrame

SpecRunner == InitRunner /\ [][NextRunner]_vars

\* The runner takes its next step whenever it has one: the subprocess prints
\* a line or closes its output, and time.sleep returns.
FairSpecRunner == InitRunner /\ [][NextRunner]_vars /\ WF_vars(NextRunner)

InitWait ==
    /\ WaitInit /\ RunnerIdle /\ FpIdle /\ MainIdle /\ ParseIdle /\ ScanIdle
    /\ AudioIdle /\ CleanupIdle
    /\ TranscodeIdle
    /\ AnalyzeIdle

\* What the wait leaves alone.
waitFrame ==
    <<runnerVars, fpVars, mainVars, parseVars, scanVars, audioVars,
      cleanupVars,
      transcodeVars,
      analyzeVars>>

NextWait ==
    \/ WaitRequest /\ UNCHANGED waitFrame
    \/ WaitSleepDone /\ UNCHANGED waitFrame
    \/ WaitInterrupt /\ UNCHANGED waitFrame
    \/ ReviewerMarksReady /\ UNCHANGED waitFrame

SpecWait == InitWait /\ [][NextWait]_vars

\* requests.get returns within its timeout and time.sleep returns: the loop
\* goes on as long as nothing ends it.  The interrupt and the reviewer are
\* under no obligation to act.
FairSpecWait ==
    /\ InitWait
    /\ [][NextWait]_vars
    /\ WF_vars(WaitRequest /\ UNCHANGED waitFrame)
    /\ WF_vars(WaitSleepDone /\ UNCHANGED waitFrame)

InitFingerprint ==
    /\ FpInit /\ RunnerIdle /\ WaitIdle /\ MainIdle /\ ParseIdle /\ ScanIdle
    /\ AudioIdle /\ CleanupIdle
    /\ TranscodeIdle
    /\ AnalyzeIdle

\* What the fingerprint leaves alone.
fpFrame ==
    <<runnerVars, waitVars, mainVars, parseVars, scanVars, audioVars,
      cleanupVars,
      transcodeVars,
      analyzeVars>>

NextFingerprint ==
    \/ FpCompute /\ UNCHANGED fpFrame
    \/ FpAddJunk /\ UNCHANGED fpFrame
    \/ FpRemoveJunk /\ UNCHANGED fpFrame
    \/ FpOtherHost /\ UNCHANGED fpFrame
    \/ FpOtherCase /\ UNCHANGED fpFrame
    \/ FpMoveByte /\ UNCHANGED fpFrame
    \/ FpComputeLegacy /\ UNCHANGED fpFrame

SpecFingerprint == InitFingerprint /\ [][NextFingerprint]_vars

Init ==
    /\ MainVolume /\ MainInit /\ RunnerIdle /\ WaitIdle /\ ParseIdle /\ ScanIdle
    /\ AudioIdle /\ CleanupIdle
    /\ TranscodeIdle
    /\ AnalyzeIdle

\* What main leaves alone.
mainFrame ==
    <<runnerVars, waitVars, fpVars, parseVars, scanVars, audioVars,
      cleanupVars,
      transcodeVars,
      analyzeVars>>

Next ==
    \/ MainFingerprint /\ UNCHANGED mainFrame
    \/ MainLookup /\ UNCHANGED mainFrame
    \/ MainMigrateVolume /\ UNCHANGED mainFrame
    \/ MainMigrateUnfiltered /\ UNCHANGED mainFrame
    \/ MainMigrateUppercase /\ UNCHANGED mainFrame
    \/ MainCoverArt /\ UNCHANGED mainFrame
    \/ MainIdentify /\ UNCHANGED mainFrame
    \/ MainPublish /\ UNCHANGED mainFrame
    \/ MainScan /\ UNCHANGED mainFrame
    \/ MainRip /\ UNCHANGED mainFrame
    \/ MainWaitPoll /\ UNCHANGED mainFrame
    \/ MainWaitInterrupt /\ UNCHANGED mainFrame
    \/ MainFetch /\ UNCHANGED mainFrame
    \/ MainTranscode /\ UNCHANGED mainFrame
    \/ MainNextRun /\ UNCHANGED mainFrame
    \/ ReviewerSetsStatus /\ UNCHANGED mainFrame
    \/ ReviewerToggles /\ UNCHANGED mainFrame

Spec == Init /\ [][Next]_vars

InitParse ==
    /\ ParseInit /\ RunnerIdle /\ WaitIdle /\ FpIdle /\ MainIdle /\ ScanIdle
    /\ AudioIdle /\ CleanupIdle
    /\ TranscodeIdle
    /\ AnalyzeIdle

\* What the parsers leave alone.
parseFrame ==
    <<runnerVars, waitVars, fpVars, mainVars, scanVars, audioVars,
      cleanupVars,
      transcodeVars,
      analyzeVars>>

NextParse ==
    \/ ParseDuration /\ UNCHANGED parseFrame
    \/ ParseSize /\ UNCHANGED parseFrame
    \/ ParseChannel /\ UNCHANGED parseFrame

SpecParse == InitParse /\ [][NextParse]_vars

InitScan ==
    /\ ScanInit /\ RunnerIdle /\ WaitIdle /\ FpIdle /\ MainIdle /\ ParseIdle
    /\ AudioIdle /\ CleanupIdle
    /\ TranscodeIdle
    /\ AnalyzeIdle

\* What the scan leaves alone.
scanFrame ==
    <<runnerVars, waitVars, fpVars, mainVars, parseVars, audioVars,
      cleanupVars,
      transcodeVars,
      analyzeVars>>

NextScan ==
    \/ ScanLine /\ UNCHANGED scanFrame
    \/ ScanBuild /\ UNCHANGED scanFrame

SpecScan == InitScan /\ [][NextScan]_vars

InitAudio ==
    /\ AudioInit /\ RunnerIdle /\ WaitIdle /\ FpIdle /\ MainIdle /\ ParseIdle
    /\ ScanIdle /\ CleanupIdle
    /\ TranscodeIdle
    /\ AnalyzeIdle

\* What the selection leaves alone.
audioFrame ==
    <<runnerVars, waitVars, fpVars, mainVars, parseVars, scanVars,
      cleanupVars,
      transcodeVars,
      analyzeVars>>

NextAudio ==
    \/ ApplyPreferences /\ UNCHANGED audioFrame

SpecAudio == InitAudio /\ [][NextAudio]_vars

InitCleanup ==
    /\ CleanupInit /\ RunnerIdle /\ WaitIdle /\ FpIdle /\ MainIdle /\ ParseIdle
    /\ ScanIdle /\ AudioIdle
    /\ TranscodeIdle
    /\ AnalyzeIdle

\* What the cleanup leaves alone.
cleanupFrame ==
    <<runnerVars, waitVars, fpVars, mainVars, parseVars, scanVars, audioVars,
      transcodeVars,
      analyzeVars>>

NextCleanup ==
    \/ CleanupFirstRun /\ UNCHANGED cleanupFrame
    \/ CleanupLaterRun /\ UNCHANGED cleanupFrame

SpecCleanup == InitCleanup /\ [][NextCleanup]_vars

InitTranscode ==
    /\ TranscodeInit /\ RunnerIdle /\ WaitIdle /\ FpIdle /\ MainIdle
    /\ ParseIdle /\ ScanIdle /\ AudioIdle /\ CleanupIdle
    /\ AnalyzeIdle

\* What transcode leaves alone.
transcodeFrame ==
    <<runnerVars, waitVars, fpVars, mainVars, parseVars, scanVars, audioVars,
      cleanupVars,
      analyzeVars>>

NextTranscode ==
    \/ Transcode /\ UNCHANGED transcodeFrame

SpecTranscode == InitTranscode /\ [][NextTranscode]_vars

InitAnalyze ==
    /\ AnalyzeInit /\ RunnerIdle /\ WaitIdle /\ FpIdle /\ MainIdle
    /\ ParseIdle /\ ScanIdle /\ AudioIdle /\ CleanupIdle
    /\ TranscodeIdle

\* What the audio-analysis phase leaves alone.
analyzeFrame ==
    <<runnerVars, waitVars, fpVars, mainVars, parseVars, scanVars, audioVars,
      cleanupVars, transcodeVars>>

NextAnalyze ==
    \/ AnalyzeCheckStatus /\ UNCHANGED analyzeFrame
    \/ AnalyzeFetchItems /\ UNCHANGED analyzeFrame
    \/ AnalyzeItem /\ UNCHANGED analyzeFrame

SpecAnalyze == InitAnalyze /\ [][NextAnalyze]_vars

-----------------------------------------------------------------------------
(***************************************************************************)
(* Properties of the runners.                                              *)
(***************************************************************************)
AllAttemptsErrored == \A i \in DOMAIN outcomes : outcomes[i] = "error"

SomeCleanAttempt == \E i \in DOMAIN outcomes : outcomes[i] = "clean"

\* The line contains, case-insensitively, one of the four signatures.
HasSignature(line) ==
    \E sub \in DISC_ERROR_SUBSTRINGS : sub \in SubstringsOf(line.phrase)

C1_Bound ==
    call = "rip" =>
        /\ attempt <= max_retries
        /\ launches = attempt
        /\ (/\ RunnerDone
            /\ max_retries >= 1
            /\ AllAttemptsErrored
            /\ fail_reason # "no_disc")
           => (/\ rpc = "exited"
               /\ exit_code = 1
               /\ fail_reason = "retries_exhausted"
               /\ launches = max_retries)

\* C1: when every attempt of run_makemkv ends on a recognized read-error
\* line and the volume reappears after each eject, the utility is launched
\* exactly max_retries (>= 1) times and the run then exits with status 1;
\* the attempt counter never exceeds max_retries, and the run always ends.
C1_RetryBound == [](C1_Bound) /\ <>RunnerDone

C1_Witness ==
    /\ call = "rip" /\ max_retries = 3 /\ volume_name # None
    /\ rpc = "exited" /\ fail_reason = "retries_exhausted"
    /\ launches = 3 /\ ejects = 2 /\ AllAttemptsErrored

\* C2: a non-zero exit status without a recognized read-error line ends
\* run_makemkv fatally at once: it is the last attempt, and no eject, no
\* reinsertion wait and no further launch follows it.
C2_NonZeroExitIsFatal ==
    (call = "rip" /\ \E i \in DOMAIN outcomes : outcomes[i] = "nonzero") =>
        /\ outcomes[Len(outcomes)] = "nonzero"
        /\ \A i \in 1..(Len(outcomes) - 1) : outcomes[i] = "error"
        /\ rpc = "exited" /\ exit_code = 1
        /\ fail_reason = "nonzero_exit"
        /\ launches = Len(outcomes)
        /\ ejects = (IF volume_name # None THEN Len(outcomes) - 1 ELSE 0)
        /\ polls = 0

C2_Witness ==
    /\ call = "rip" /\ max_retries = 3 /\ attempt = 1
    /\ outcomes = <<"nonzero">>
    /\ rpc = "exited" /\ launches = 1 /\ ejects = 0

\* C3: run_makemkv returns normally exactly when some attempt produced no
\* recognized read-error line and exited with status zero, for every value
\* of max_retries.
C3_SuccessIffCleanAttempt ==
    call = "rip" => ((rpc = "returned") <=> SomeCleanAttempt)

\* A wait that ended: the path was seen, or all WAIT_CEILING tests failed.
C4_Step ==
    /\ (call = "rip" /\ launches' = launches + 1 /\ launches >= 1
            /\ volume_name # None)
       => (/\ rpc = "loop" /\ path_seen
           /\ polls \in 1..WAIT_CEILING
           /\ ejects = launches)
    /\ (call = "rip" /\ rpc = "after" /\ error_detected
            /\ attempt < max_retries /\ volume_name # None)
       => (rpc' = "waiting" /\ ejects' = ejects + 1 /\ polls' = 0
            /\ launches' = launches)
    /\ (rpc = "waiting" /\ rpc' = "exited")
       => (/\ polls' = WAIT_CEILING /\ ~path_seen'
           /\ fail_reason' = "no_disc" /\ exit_code' = 1
           /\ launches' = launches)
    /\ (rpc = "waiting" /\ rpc' = "waiting") => (~path_seen' /\ polls' = polls + 1)

\* C4: on a read error with attempts remaining and a volume name,
\* run_makemkv ejects (whatever the eject's outcome) and then tests the
\* mount path at most 60 times; it launches the utility again only after a
\* test found the path, and exits with status 1, without another launch,
\* when all 60 tests failed.
C4_EjectThenWait ==
    /\ [](polls <= WAIT_CEILING)
    /\ [](rpc = "waiting" => (polls < WAIT_CEILING /\ ~path_seen))
    /\ [][C4_Step]_vars

C4_Witness ==
    /\ call = "rip" /\ rpc = "reading" /\ attempt = 2 /\ launches = 2
    /\ eject_result = "failed" /\ ejects = 1

\* C5: in the scan and in the rip, a line that contains, case-insensitively,
\* one of the four signatures is the last line processed: the error is
\* flagged and the subprocess is terminated or killed.
C5_AllFourSignaturesDetected ==
    \A i \in DOMAIN seen :
        HasSignature(seen[i]) =>
            /\ i = Len(seen)
            /\ error_detected
            /\ proc \in {"terminated", "killed"}

(***************************************************************************)
(* Properties of wait_for_metadata_layout_ready.                           *)
(***************************************************************************)
ErrorAnswer(a) ==
    \/ a.kind \in {"timeout", "neterror"}
    \/ a.kind = "response" /\ a.code # 200

C6_Safe ==
    /\ wpc = "returned" =>
           (answer.kind = "response" /\ answer.code = 200
              /\ answer.status = "ready")
    /\ ErrorAnswer(answer) => wpc \in {"sleep_try", "sleep", "aborted"}
    /\ wpc = "aborted" => (interrupted /\ wait_exit # 0)
    /\ wpc # "aborted" => wait_exit = 0

\* A sleep ends in the next poll, unless the user interrupts it.
C6_Step ==
    (wpc \in {"sleep_try", "sleep"} /\ ~interrupted') =>
        (wpc' \in {wpc, "request"})

\* C6: wait_for_metadata_layout_ready returns only from a poll answered 200
\* with status "ready"; a non-200 answer, a timeout or a network error only
\* leads to the sleep before the next poll; the only other end is the user's
\* interrupt, with a non-zero exit status; and, unless interrupted, the call
\* returns once the store answers "ready" from some point on.
C6_WaitUntilReady ==
    /\ [](C6_Safe)
    /\ [][C6_Step]_vars
    /\ ([](~interrupted) => (ready_forever ~> (wpc = "returned")))

C6_Witness ==
    /\ wpc = "returned" /\ error_count = 0 /\ spin = 3 /\ ~ready_forever

(***************************************************************************)
(* Properties of disc_fingerprint.                                         *)
(***************************************************************************)
\* C10: the digest of a volume is the one computed first, on a host with
\* "/" for the lowercase disc type and without junk, whatever junk files and
\* junk directories were added or removed since, whatever the order of the
\* walk, the host's separator and the case of disc_type, and wherever the
\* bytes of an unchanged size sum lie; it counts the non-junk files only.
C10_FingerprintIgnoresJunk ==
    fp_digest # NoDigest =>
        /\ fp_digest = fp_first
        /\ fp_digest[2].file_count = Cardinality(fp_present \cap Content)

C10_Witness ==
    /\ fp_digest # NoDigest
    /\ {"j1", "j4"} \subseteq fp_present
    /\ {"c1", "c2"} \subseteq fp_present
    /\ fp_sep = "\\"
    /\ fp_type = <<"D", "V", "D">>
    /\ fp_moves = 1

-----------------------------------------------------------------------------
(***************************************************************************)
(* Properties of main.                                                     *)
(***************************************************************************)
C7_Safe ==
    /\ mpc \in {"fetch", "transcode", "done"} => ready_seen
    /\ mpc \in {"transcode", "done"} => fetched
    /\ transcoded # {} => ready_seen /\ fetched
    /\ transcoded \subseteq enabled_items

C7_Step ==
    /\ transcoded' # transcoded =>
          ready_seen /\ fetched /\ transcoded' \subseteq enabled_items
    /\ (enabled_items' # enabled_items /\ mpc = "fetch") =>
          ready_seen /\ enabled_items' = st_enabled
    /\ (~ready_seen /\ ready_seen') => mpc = "wait" /\ st_layout = "ready"

\* C7: in every run of main no title is handed to the transcoder before the
\* wait of that run has observed the layout's status "ready", and the items
\* handed to the transcoder come from the list of enabled items fetched
\* from the store after that observation.
C7_TranscodeAfterReady == [](C7_Safe) /\ [][C7_Step]_vars

\* A title is transcoded out of a list that reflects the reviewer's edit.
C7_Witness ==
    /\ transcoded = {1}
    /\ enabled_items = {1}
    /\ st_items = {0, 1}
    /\ ready_seen /\ fetched

C8_Reported(made) ==
    /\ made.status \in {200, 201} => made.outcome = "created"
    /\ made.status = 409 => made.outcome = "already_exists"
    /\ made.status \notin {0, 200, 201, 409} => made.outcome = "fatal"

C8_Safe ==
    /\ C8_Reported(pub_last)
    /\ pub_last.outcome = "fatal" => mpc = "exited" /\ m_exit = 1
    /\ (pub_last.existed /\ pub_last.status \in {200, 201, 409}) =>
          pub_last.outcome = "already_exists"
    /\ (pub_prev # "none" /\ pub_last.status # 0) => pub_last.existed

C8_Step ==
    (pub_last' # pub_last /\ pub_last'.status \in {200, 201, 409}) =>
        mpc' = "scan" /\ m_exit' = 0 /\ st_layout' # "none"

\* C8: ensure_metadata_layout reports "created" for 200 and 201 and
\* "already exists" for 409, and main goes on after each of the three; a
\* call made when the layout exists (a second call) is answered 409 and goes
\* on like the first; every other status ends the run with exit status 1.
C8_PublishIdempotent == [](C8_Safe) /\ [][C8_Step]_vars

\* The second call, in a later run, reports "already exists" and main has
\* gone on.
C8_Witness ==
    /\ pub_prev = "created"
    /\ pub_last.outcome = "already_exists"
    /\ mpc = "scan"

LegacyVariants ==
    [volume |-> legacy_checksum, unfiltered |-> unfiltered_checksum,
     uppercase |-> uppercase_checksum]

Rank(variant) ==
    CASE variant = "volume" -> 1
      [] variant = "unfiltered" -> 2
      [] variant = "uppercase" -> 3

C9_Request(r) ==
    /\ ~r.canonical_had
    /\ r.legacy_had
    /\ r.to = new_checksum
    /\ r.from # new_checksum
    /\ r.from = LegacyVariants[r.variant]

C9_OrderWitness ==
    /\ Len(rekeys) = 2
    /\ rekeys[1].variant = "unfiltered" /\ rekeys[1].status = 500
    /\ rekeys[2].variant = "uppercase" /\ rekeys[2].status = 200

-----------------------------------------------------------------------------
(***************************************************************************)
(* Properties of the legacy fingerprint.                                   *)
(***************************************************************************)
UpperDVD == <<"D", "V", "D">>

\* C11 as stated: on a volume without junk files the legacy digest
\* computed for "DVD" with preserve_case=True is the canonical digest
\* computed for "dvd".
C11_UppercaseLegacyIsCanonical ==
    (fp_legacy.called /\ ~fp_legacy.junk /\ fp_legacy.preserve_case
        /\ fp_legacy.disc_type = UpperDVD)
    => fp_legacy.digest = fp_legacy.canonical

\* C11 as amended: on a volume without junk files the legacy digest
\* computed for "DVD" is the canonical digest computed for "dvd" when
\* preserve_case is False, and with preserve_case=True it keeps "DVD" in
\* the document and is another digest.
C11_LowercasedLegacyIsCanonical ==
    (fp_legacy.called /\ ~fp_legacy.junk /\ fp_legacy.disc_type = UpperDVD)
    => /\ ~fp_legacy.preserve_case => fp_legacy.digest = fp_legacy.canonical
       /\ fp_legacy.preserve_case =>
             /\ fp_legacy.digest # fp_legacy.canonical
             /\ fp_legacy.digest[2].disc_type = UpperDVD
             /\ fp_legacy.digest[2].files = fp_legacy.canonical[2].files
             /\ fp_legacy.digest[2].total_size
                    = fp_legacy.canonical[2].total_size

\* Both files on the volume, no junk, "DVD" lowercased by the legacy
\* function.
C11_Witness ==
    /\ fp_legacy.called /\ ~fp_legacy.junk /\ ~fp_legacy.preserve_case
    /\ fp_legacy.disc_type = UpperDVD
    /\ fp_legacy.digest[2].file_count = 2
    /\ fp_legacy.digest = fp_legacy.canonical

-----------------------------------------------------------------------------
(***************************************************************************)
(* Properties of the duration and size parsers.                            *)
(***************************************************************************)
\* C16: neither parser raises: a text that cannot be parsed gives None.
C16_ParsersNeverRaise == ps_result.outcome \in {"pending", "value", "None"}

\* 1000^k and 1024^k, k = 1..5, written out.
SizeMultiplier(unit) ==
    LET up == ToUpper(unit)
    IN CASE up = <<"K", "B">> -> <<1000>>
         [] up = <<"M", "B">> -> <<0, 100>>
         [] up = <<"G", "B">> -> <<0, 0, 10>>
         [] up = <<"T", "B">> -> <<0, 0, 0, 1>>
         [] up = <<"P", "B">> -> <<0, 0, 0, 1000>>
         [] up = <<"K", "I", "B">> -> <<1024>>
         [] up = <<"M", "I", "B">> -> <<8576, 104>>
         [] up = <<"G", "I", "B">> -> <<1824, 7374, 10>>
         [] up = <<"T", "I", "B">> -> <<7776, 1162, 995, 1>>
         [] up = <<"P", "I", "B">> -> <<2624, 684, 8999, 1125>>
         [] OTHER -> <<>>

\* The numbers among SizeNumbers, as mantissa and count of decimals.
NumberValue(number) ==
    CASE number = <<"4", ".", "3">> -> <<43, 1>>
      [] number = <<"4", "3">> -> <<43, 0>>
      [] number = <<"0", ".", "5">> -> <<5, 1>>
      [] number = <<".", "5">> -> <<5, 1>>
      [] number = <<"5", ".">> -> <<5, 0>>
      [] number = <<"8", "1", "2", ".", "0">> -> <<8120, 1>>
      [] number = <<"1", "2", ".", "5">> -> <<125, 1>>
      [] OTHER -> <<>>

LimbLeq(a, b) ==
    \/ Len(a) < Len(b)
    \/ a = b
    \/ /\ Len(a) = Len(b)
       /\ \E i \in DOMAIN a :
             a[i] < b[i] /\ \A j \in DOMAIN a : j > i => a[j] = b[j]

RECURSIVE Succ(_)
Succ(limbs) ==
    IF limbs = <<>> THEN <<1>>
    ELSE IF limbs[1] < 9999 THEN <<limbs[1] + 1>> \o Tail(limbs)
    ELSE <<0>> \o Succ(Tail(limbs))

\* r is the integer part of m * multiplier / 10^d
IsIntegerPart(r, m, d, multiplier) ==
    /\ LimbLeq(MulSmall(r, Pow10(d)), MulSmall(multiplier, m))
    /\ ~LimbLeq(MulSmall(Succ(r), Pow10(d)), MulSmall(multiplier, m))

\* C17: a number followed by one of the units KB..PB or KiB..PiB, in any
\* case, gives the integer part of number * 1000^k or number * 1024^k;
\* "4.3 GB" gives 4300000000 and "4.3 GiB" gives 4617089843; a text whose
\* unit is none of these gives None.
C17_SizeInBytes ==
    (ps_kind = "size" /\ ps_result # NoParse) =>
        LET multiplier == SizeMultiplier(ps_parts.unit)
            number == NumberValue(ps_parts.number)
        IN /\ (multiplier # <<>> /\ number # <<>>) =>
                 /\ ps_result.outcome = "value"
                 /\ IsIntegerPart(ps_result.value, number[1], number[2],
                                  multiplier)
           /\ multiplier = <<>> => ps_result = ParsedNone
           /\ (ps_parts.number = <<"4", ".", "3">> /\ ToUpper(ps_parts.unit) = <<"G", "B">>)
                 => ps_result.value = <<0, 0, 43>>
           /\ (ps_parts.number = <<"4", ".", "3">>
                  /\ ToUpper(ps_parts.unit) = <<"G", "I", "B">>)
                 => ps_result.value = <<9843, 1708, 46>>

\* " 4.3 Gib " has been parsed.
C17_Witness ==
    /\ ps_kind = "size"
    /\ ps_parts.number = <<"4", ".", "3">>
    /\ ps_parts.unit = <<"G", "i", "b">>
    /\ ps_parts.pad = <<" ">>
    /\ ps_result = Value(<<9843, 1708, 46>>)

\* C13: the pipeline waits for "ready", fetches the enabled items and
\* transcodes only with every scanned title stored in the layout: when a POST
\* of an item failed, in this run or in an earlier one, it has ended or the
\* missing titles have been stored.
C13_NoPartialLayoutUsed ==
    mpc \in {"wait", "fetch", "transcode"} => st_items = Titles

-----------------------------------------------------------------------------
(***************************************************************************)
(* Properties of the scan.                                                 *)
(***************************************************************************)

\* The scan's input seen as a whole, whatever the order of its lines.
TinfoLines == {l \in sc_input : l.kind = "TINFO"}

SinfoLines == {l \in sc_input : l.kind = "SINFO"}

ScannedTitles == {l.title : l \in TinfoLines}

\* C12: the scan fails fatally exactly when its output holds no TINFO
\* record: a scan that returns has read at least one, and a scan that has read
\* at least one does not fail.
C12_FailsIffNoTitles ==
    /\ sc_pc = "returned" => TinfoLines # {}
    /\ sc_pc = "raised" => TinfoLines = {}

TrackIndexes(tracks) == {tracks[i].stream_index : i \in DOMAIN tracks}

\* C15: a stream of a returned title is among its audio tracks exactly
\* when its lowercased type text contains "audio", among its subtitle tracks
\* exactly when it does not and the text contains "subtitle", whatever the
\* numeric code of the line; a stream without a type text is in neither.
C15_ClassifiedByTypeText ==
    sc_pc = "returned" =>
      \A i \in DOMAIN sc_results :
        LET title == sc_results[i]
            streams == {l.stream : l \in {m \in SinfoLines :
                                            m.title = title.title_index}}
            typed == {l \in SinfoLines :
                        l.title = title.title_index /\ l.attr = 1}
            audio == {l.stream : l \in {m \in typed :
                        Contains(ToLower(m.value), <<"a", "u", "d", "i", "o">>)}}
            subtitle == {l.stream : l \in {m \in typed :
                           /\ ~Contains(ToLower(m.value), <<"a", "u", "d", "i", "o">>)
                           /\ Contains(ToLower(m.value), <<"s", "u", "b", "t", "i", "t", "l", "e">>)}}
        IN /\ TrackIndexes(title.audio_tracks) = audio
           /\ TrackIndexes(title.subtitle_tracks) = subtitle
           /\ \A j \in DOMAIN title.audio_tracks :
                title.audio_tracks[j].type = "audio"
           /\ \A j \in DOMAIN title.subtitle_tracks :
                title.subtitle_tracks[j].type = "subtitle"

\* A title is returned with an audio track and a subtitle track whose type
\* lines carried the same numeric code.
C15_Witness ==
    /\ sc_pc = "returned"
    /\ \E i \in DOMAIN sc_results :
         /\ Len(sc_results[i].audio_tracks) = 1
         /\ Len(sc_results[i].subtitle_tracks) = 1
         /\ \E l, m \in SinfoLines :
              /\ l.title = sc_results[i].title_index
              /\ m.title = l.title
              /\ l.stream = sc_results[i].audio_tracks[1].stream_index
              /\ m.stream = sc_results[i].subtitle_tracks[1].stream_index
              /\ l.attr = 1 /\ m.attr = 1
              /\ l.code = m.code

\* C18: when angles were detected and more than one title was scanned,
\* the titles returned are, in title_index order, those that no title of a
\* lower title_index shares its duration_seconds with; otherwise all are
\* returned.
C18_FirstPerDuration ==
    LET duration(t) == TitleOf(t).duration_seconds
        all == DOMAIN titles_tinfo
        kept == IF angles_detected /\ Cardinality(all) > 1
                THEN {t \in all : \A u \in all :
                                    u < t => duration(u) # duration(t)}
                ELSE all
    IN sc_pc = "returned" =>
         /\ Len(sc_results) = Cardinality(kept)
         /\ \A i \in DOMAIN sc_results :
              sc_results[i] = TitleOf(Sorted(kept)[i])

\* Titles of 3600, 3600 and 5400 seconds on a disc with angles: two are
\* returned.
C18_Witness ==
    /\ sc_pc = "returned"
    /\ angles_detected
    /\ DOMAIN titles_tinfo = {0, 1, 2}
    /\ TitleOf(0).duration_seconds = Value(ToLimbs(3600))
    /\ TitleOf(1).duration_seconds = Value(ToLimbs(3600))
    /\ TitleOf(2).duration_seconds = Value(ToLimbs(5400))
    /\ Len(sc_results) = 2
    /\ sc_results[1].title_index = 0
    /\ sc_results[2].title_index = 2

-----------------------------------------------------------------------------
(***************************************************************************)
(* Properties of the selection of audio tracks.                            *)
(***************************************************************************)

\* The score of a track as the weights are documented: the layout's weight,
\* 50 for a lossless codec, 25 for Atmos.
DocumentedScore(track) ==
    (CASE track.channel_format = <<"7", ".", "1", " ", "S", "u", "r", "r",
                                   "o", "u", "n", "d">> -> 400
       [] track.channel_format = <<"5", ".", "1", " ", "S", "u", "r", "r",
                                   "o", "u", "n", "d">> -> 300
       [] track.channel_format = <<"S", "t", "e", "r", "e", "o">> -> 200
       [] track.channel_format = <<"M", "o", "n", "o">> -> 100
       [] OTHER -> 0)
    + (IF track.codec_format \in {<<"A", "_", "T", "R", "U", "E", "H", "D">>,
                                  <<"A", "_", "D", "T", "S", ":", "X">>}
       THEN 50 ELSE 0)
    + (IF track.is_atmos THEN 25 ELSE 0)

\* The quality policy and the commentary wish of the settings in force
AudioQuality ==
    SettingsGet(user_settings, "audio_quality_preference", "best")

\* The main tracks of the list, by position
Mains == {p \in DOMAIN updated_tracks : ~updated_tracks[p].is_commentary}

EnabledMains == {p \in Mains : updated_tracks[p].enabled}

\* C19: under policy "best" exactly one main track is enabled when there
\* is one: the first, in list order, of those with the highest score, the
\* score being the layout's weight (7.1 = 400, 5.1 = 300, stereo = 200,
\* mono = 100, else 0) plus 50 for a lossless codec plus 25 for Atmos.
C19_BestIsFirstTopScore ==
    LET top(p) == \A r \in Mains :
                     DocumentedScore(updated_tracks[r])
                        <= DocumentedScore(updated_tracks[p])
    IN (apc = "done" /\ AudioQuality = "best") =>
            /\ \A p \in DOMAIN updated_tracks :
                 get_audio_track_score(updated_tracks[p])
                    = DocumentedScore(updated_tracks[p])
            /\ Mains # {} => Cardinality(EnabledMains) = 1
            /\ EnabledMains =
                  {p \in Mains : top(p) /\ \A r \in Mains : top(r) => p <= r}

\* Two different main tracks share the highest score (7.1 TrueHD and 7.1
\* DTS:X, 450 each) behind a track of a lower score; the earlier of the two
\* is the one enabled.
C19_Witness ==
    /\ apc = "done"
    /\ AudioQuality = "best"
    /\ Len(updated_tracks) = 3
    /\ get_audio_track_score(updated_tracks[1]) = 300
    /\ get_audio_track_score(updated_tracks[2]) = 450
    /\ get_audio_track_score(updated_tracks[3]) = 450
    /\ updated_tracks[2].codec_name # updated_tracks[3].codec_name
    /\ EnabledMains = {2}

\* C20: under "lossless" the enabled main tracks are exactly those that
\* get the lossless bonus of the score, under "lossy" exactly those that do
\* not get it.
C20_PolicyMatchesBonus ==
    (apc = "done"
       /\ AudioQuality \in {"lossless", "lossy"}) =>
      \A p \in Mains :
        updated_tracks[p].enabled
          = ((AudioQuality = "lossless")
               = HasLosslessBonus(updated_tracks[p]))

\* C21: with a policy other than "best", "lossless" and "lossy", or with
\* none, the selection is that of "best".  (The selection reads no enabled
\* flag, so "best" applied to the selected list is "best" applied to the list
\* as it was.)
C21_UnknownPolicyIsBest ==
    (apc = "done" /\ AudioQuality \notin {"lossless", "lossy"}) =>
        updated_tracks =
            apply_audio_track_preferences(
                updated_tracks,
                Put(user_settings, "audio_quality_preference", "best"))

\* C22: after the selection a commentary track is enabled exactly when
\* the settings ask for commentary, include_commentary absent counting as
\* false.
C22_CommentaryIffRequested ==
    apc = "done" =>
      \A p \in DOMAIN updated_tracks :
        updated_tracks[p].is_commentary =>
          updated_tracks[p].enabled
             = SettingsGet(user_settings, "include_commentary", FALSE)

\* Settings without include_commentary, policy "best", and a commentary
\* track that scores higher than every main track of the list: it is disabled.
C22_Witness ==
    /\ apc = "done"
    /\ "include_commentary" \notin DOMAIN user_settings
    /\ AudioQuality = "best"
    /\ Mains # {}
    /\ \E p \in DOMAIN updated_tracks :
         /\ updated_tracks[p].is_commentary
         /\ ~updated_tracks[p].enabled
         /\ \A r \in Mains :
              get_audio_track_score(updated_tracks[r])
                 < get_audio_track_score(updated_tracks[p])

-----------------------------------------------------------------------------
(***************************************************************************)
(* Properties of the removal of angle duplicates.                          *)
(***************************************************************************)

\* C24: unless angles were announced and the disc has more than one
\* title, every title of the disc is stored and stays stored, in the first run
\* and in every later one.
C24_RemovedOnlyWithAngles ==
    (cu_pc \in {"stored", "skipped", "cleaned"}
       /\ ~(cu_angles /\ Len(cu_titles) > 1)) =>
        cu_items = cu_titles

\* C30: cleanup_angle_duplicates, every delete succeeding, leaves of a
\* list of titles what the scan's filter leaves of it.
C30_CleanupIsTheFilter ==
    (cu_pc = "cleaned" /\ ~cu_angles /\ cu_failed = {}) =>
        cu_items = FilterAngles(cu_titles, {})

-----------------------------------------------------------------------------
(***************************************************************************)
(* Properties of the scan's runner.                                        *)
(***************************************************************************)

\* C28: in _run_makemkv_info an error line ends the run at once: it is
\* the last line read, the subprocess is terminated (or killed) and the
\* process exits with status 1; the scan is launched at most once, nothing is
\* ejected, no reinsertion is waited for, and the lines are returned only
\* from an output without error line.
C28_ScanErrorIsFatal ==
    call = "scan" =>
      /\ launches <= 1 /\ ejects = 0 /\ polls = 0 /\ attempt = 0
      /\ \A i \in DOMAIN seen :
           ScanErrorLine(seen[i]) =>
             /\ i = Len(seen)
             /\ rpc = "exited" /\ exit_code = 1
             /\ fail_reason = "scan_error"
             /\ proc \in {"terminated", "killed"}
      /\ rpc = "returned" => \A i \in DOMAIN seen : ~ScanErrorLine(seen[i])

\* The scan has exited on an error line that followed a line without error.
C28_Witness ==
    /\ call = "scan"
    /\ rpc = "exited" /\ exit_code = 1
    /\ launches = 1
    /\ Len(seen) = 2
    /\ ~ScanErrorLine(seen[1])
    /\ ScanErrorLine(seen[2])

-----------------------------------------------------------------------------
(***************************************************************************)
(* Properties of the channel layout.                                       *)
(***************************************************************************)

ValidLayouts == {<<"1", ".", "0">>, <<"2", ".", "0">>, <<"2", ".", "1">>, <<"5", ".", "1">>, <<"6", ".", "1">>, <<"7", ".", "1">>, <<"7", ".", "2">>}

\* C27: a digit.digit token of the text that is none of 1.0, 2.0, 2.1,
\* 5.1, 6.1, 7.1 and 7.2 is not taken as the channel layout.
C27_OnlyValidLayouts ==
    (ps_kind = "channel" /\ ps_result # NoParse
       /\ ps_parts.number \notin ValidLayouts) =>
        ps_result # Value(ps_parts.number)

-----------------------------------------------------------------------------
(***************************************************************************)
(* Properties of the transcoder's selections.                              *)
(***************************************************************************)

\* The positions a selection names
Selected(selection) == {selection.tracks[i] : i \in DOMAIN selection.tracks}

\* C26: for an item with track data the audio and the subtitle selection
\* of the command name, in ascending order, the positions of the tracks whose
\* enabled flag is true, and no track whose flag is false.
C26_SelectionIsEnabledTracks ==
    tc_pc = "run" =>
      /\ tc_audio # <<>> =>
           \A i \in DOMAIN tc_audio :
             ("enabled" \in DOMAIN tc_audio[i]) =>
               (i \in Selected(cmd.audio)) = tc_audio[i].enabled
      /\ tc_subtitles # <<>> =>
           \A i \in DOMAIN tc_subtitles :
             ("enabled" \in DOMAIN tc_subtitles[i]) =>
               (i \in Selected(cmd.subtitle)) = tc_subtitles[i].enabled
      /\ \A i, j \in DOMAIN cmd.audio.tracks :
           i < j => cmd.audio.tracks[i] < cmd.audio.tracks[j]
      /\ \A i, j \in DOMAIN cmd.subtitle.tracks :
           i < j => cmd.subtitle.tracks[i] < cmd.subtitle.tracks[j]

-----------------------------------------------------------------------------
(***************************************************************************)
(* Properties of the audio-analysis phase.                                 *)
(***************************************************************************)

\* The layout is marked ready
MarkedReady ==
    "status" \in DOMAIN an_layout /\ an_layout.status \in {Ready, ReadyUpper}

\* The fields in which a track of a PATCH differs from the fetched track, the
\* fields it has in addition included
ChangedFields(before, after) ==
    {k \in DOMAIN before \cup DOMAIN after :
        \/ k \notin DOMAIN before
        \/ k \notin DOMAIN after
        \/ before[k] # after[k]}

\* C25 as stated: a PATCH has the fetched tracks, changed in no field
\* but 'enabled' and with no field added.
C25_OnlyEnabledChanges ==
    \A n \in DOMAIN an_patches :
      /\ Len(an_patches[n]) = Len(an_fetched)
      /\ \A p \in DOMAIN an_fetched :
           ChangedFields(an_fetched[p], an_patches[n][p]) \subseteq {"enabled"}

\* C25: a PATCH has the fetched tracks in their order; a track of it
\* differs from the fetched one at most in 'enabled', in 'is_commentary' and
\* in an added 'dynamic_range'; is_commentary changes only from false to
\* true, and both only on a track with a stream_index.
C25_EnabledAndAnalysisFields ==
    \A n \in DOMAIN an_patches :
      /\ Len(an_patches[n]) = Len(an_fetched)
      /\ \A p \in DOMAIN an_fetched :
           LET before == an_fetched[p]
               after == an_patches[n][p]
               changed == ChangedFields(before, after)
           IN /\ changed \subseteq {"enabled", "is_commentary", "dynamic_range"}
              /\ DOMAIN before \subseteq DOMAIN after
              /\ "is_commentary" \in changed =>
                   ~before.is_commentary /\ after.is_commentary
              /\ changed \cap {"is_commentary", "dynamic_range"} # {} =>
                   "stream_index" \in DOMAIN before

\* An analysis flagged a track as commentary and the PATCH carries it.
C25_Witness ==
    /\ an_pc = "done" /\ Len(an_patches) = 1
    /\ \E p \in DOMAIN an_fetched :
         /\ ~an_fetched[p].is_commentary
         /\ an_patches[1][p].is_commentary
         /\ "dynamic_range" \in DOMAIN an_patches[1][p]
    /\ \E p \in DOMAIN an_fetched :
         /\ an_fetched[p].is_commentary
         /\ "dynamic_range" \in DOMAIN an_patches[1][p]

-----------------------------------------------------------------------------
(***************************************************************************)
(* Properties of the keys main works under.                                *)
(***************************************************************************)

\* The uses under which a run creates or publishes data
PublishingUses ==
    {"temp_dir", "post_disc", "post_layout", "post_items", "ready_poll"}

\* C23: in every run, whatever the migration steps did, the key of the
\* temp directory, of POST discs, of POST metadata-layout, of the POST of the
\* items and of the ready poll is the canonical digest of disc_fingerprint,
\* and a legacy digest occurs only as the source key of a re-key request to
\* the canonical one.
C23_CanonicalKeysOnly ==
    /\ checksum \in {NoDigest, new_checksum}
    /\ \A u \in keys_used :
         u.key = IF u.use = "temp_dir" THEN TempDirName(new_checksum)
                                      ELSE new_checksum
    /\ \A i \in DOMAIN rekeys :
         /\ rekeys[i].to = new_checksum
         /\ rekeys[i].from \in {legacy_checksum, unfiltered_checksum,
                                uppercase_checksum}

\* A re-key of this run failed, its legacy record is still in the store, and
\* the run went on to publish under every use.
C23_Witness ==
    /\ \E i \in DOMAIN rekeys :
         /\ rekeys[i].status # 200
         /\ rekeys[i].from \in st_discs
         /\ rekeys[i].from # new_checksum
    /\ PublishingUses \subseteq {u.use : u \in keys_used}
    /\ new_checksum \in st_discs
    /\ st_items # {}

=============================================================================
